---- MODULE Spec2Model ----
(***************************************************************************)
(* Verification model of the relay/LED controller (krausk/desyplan):       *)
(*   controller/relay_controller.py  RelayController (construction,        *)
(*                                   dispatch, rescan, buffer reset,       *)
(*                                   close, bit packing, wire frames)      *)
(*   controller/animation.py         Animation.step / safe_wait and the    *)
(*                                   _do_step of the five patterns         *)
(*   controller/display_manager.py   DisplayManager (buffer, show, close)  *)
(*   controller/web_server.py        animation thread and its handlers     *)
(* Each part is a state machine of its own; a specification runs one of    *)
(* them and leaves the variables of the others at their parked values.     *)
(***************************************************************************)
EXTENDS Integers, Sequences, FiniteSets, TLC

\* ------------------------------------------------------------------ bounds
NumSlaves == 2        \* configured serial ports
NumThreads == 2       \* threads calling into the controller (SpecConc)
MaxGen == 1           \* transports opened per slave after construction
TotalLeds == 3        \* channels of the display the animation draws on
MaxWidth == 2         \* largest ScanningChase width
MaxSpeed == 2         \* largest requested speed, in ticks
MaxMinDelay == 2      \* largest configured min_relay_delay, in ticks
ClockStart == 4       \* time.time() when the animation is constructed
MaxElapse == 5        \* ticks the clock may advance past ClockStart
MaxBits == 9          \* longest input of _pack_bits
MaxFrameLen == 4      \* longest frame handed to dispatch_frame (the scenario frame apart)
MaxTotal == 8         \* largest configured total_relays
MaxLarsonTotal == 10  \* largest channel count a LarsonScanner runs on
MaxLarsonWidth == 4   \* largest LarsonScanner width
MaxAnimThreads == 2   \* AnimationThread objects created by the web server
MaxPorts == 2         \* most serial ports a constructed controller is configured with
MaxDmTotal == 3       \* largest total_leds of a DisplayManager driven call by call
MaxPatTotal == 5      \* largest total_leds the animation patterns are stepped on
MaxPatWidth == 2      \* largest width of a ScanningChase or LarsonScanner pattern
MaxSteps == 7         \* steps an animation instance is followed for
MaxForeign == 1       \* steps before which other writers of the buffer are followed
MaxTwinTotal == 4     \* largest total_leds of the two displays run side by side
MaxTwinSteps == 6     \* steps each of the two side-by-side animations is followed for
NumI2cSlaves == 2     \* slaves on the I2C bus (6 in display_manager.py)
BytesPerSlave == 1    \* packed bytes per I2C slave (12 in display_manager.py)
MaxLit == 2           \* most channels on in a frame shown over the I2C bus
MaxReqTotal == 2      \* largest total_leds under the request handlers
MaxRequests == 3      \* requests followed
MaxFrames == 2        \* the count of frames the handlers dispatch saturates here

Slaves == 1..NumSlaves
Threads == 1..NumThreads
NoThread == 0

VARIABLES
    \* RelayController fields
    serial_connections,   \* [Slaves -> link]: self.serial_connections
    slave_online,         \* [Slaves -> BOOLEAN]: self.slave_online
    mock_mode,            \* self.mock_mode
    lock,                 \* holder of self._lock, NoThread when free
    \* per-thread position inside a RelayController call
    pc,                   \* [Threads -> STRING]
    idx,                  \* [Threads -> 1..NumSlaves+1]: loop variable i
    conn,                 \* [Threads -> link]: loop variable conn of dispatch_frame
    found,                \* [Threads -> SUBSET Slaves]: scan_bus's result list
    \* observation of the call in progress (reset when the call returns)
    online0,              \* [Threads -> [Slaves -> BOOLEAN]]: slave_online at call start
    res,                  \* [Threads -> [Slaves -> STRING]]: what the call did to each slave
    used,                 \* [Threads -> [Slaves -> Int]]: generation of the link it used
    intr,                 \* [Threads -> BOOLEAN]: another call wrote after this call's first packet
    interleaved,          \* some call's packets were split by another call's packet
    down,                 \* [Slaves -> [why, gen]]: what last set the slave offline, on which link
    \* Animation (one instance) and the clock
    now,                  \* time.time(), in ticks
    last_update_time,     \* Animation.last_update_time
    speed,                \* the animation's requested speed
    width,                \* ScanningChase.width
    min_relay_delay,      \* config.min_relay_delay
    position,             \* ScanningChase.position
    buffer,               \* the display buffer, [0..TotalLeds-1 -> {0,1}]
    apc,                  \* position inside Animation.step
    start,                \* local start of Animation.step
    sw_now,               \* local now of safe_wait
    wake,                 \* earliest clock value at which time.sleep returns
    showAt,               \* clock value of the latest show call (-1: none yet)
    prevShowAt,           \* clock value of the show call before that (-1: none)
    prevStart,            \* start of the previous step (-1: none)
    prevLast,             \* last_update_time before the latest safe_wait set it
    slept,                \* the latest safe_wait called time.sleep
    \* bit packer
    bits,                 \* input of _pack_bits
    packed,               \* its result
    ppc,                  \* "input" | "done"
    \* the data path of one dispatch_frame call
    frame_data,           \* the caller's list, as the call leaves it
    frame_arg,            \* its value when dispatch_frame was called
    total_relays,         \* self.total_relays (config.total_leds)
    LEDS_PER_SLAVE,       \* self.LEDS_PER_SLAVE
    ports,                \* len(self.SERIAL_PORTS)
    fr_online,            \* self.slave_online of this controller
    fr_online0,           \* its value when dispatch_frame was called
    wire,                 \* [1..NumSlaves -> packets handed to conn.write]
    fpc,                  \* "call" | "done"
    \* LarsonScanner (one instance)
    ls_total,             \* self.dm.total_leds
    ls_width,             \* self.width
    pos,                  \* self.pos
    direction,            \* self.direction
    ls_lit,               \* the indices the latest step passed to set_led
    ls_drawn,             \* <<p>>: the latest step drew its window at p; <<>>: no step yet
    lpc,                  \* "draw" | "advance"
    \* web_server globals, AnimationThread objects and request handlers
    animation_thread,     \* the global animation_thread: a thread or NoAnim (None)
    animation_running,    \* the global animation_running
    th_pc,                \* [AnimThreads -> position of the thread in run()]
    th_running,           \* [AnimThreads -> BOOLEAN]: AnimationThread.running
    th_after,             \* [AnimThreads -> steps the thread began after stop()]
    h_pc,                 \* [Handlers -> position of the request handler]
    h_op                  \* [Handlers -> route being handled]

ctlVars == <<serial_connections, slave_online, mock_mode, lock, pc, idx, conn, found,
             online0, res, used, intr, interleaved, down>>
animVars == <<now, last_update_time, speed, width, min_relay_delay, position, buffer, apc,
              start, sw_now, wake, showAt, prevShowAt, prevStart, prevLast, slept>>
packVars == <<bits, packed, ppc>>
frameVars == <<frame_data, frame_arg, total_relays, LEDS_PER_SLAVE, ports, fr_online,
               fr_online0, wire, fpc>>
VARIABLES
    \* RelayController.__init__, statement by statement
    ctor_ports,           \* len(self.SERIAL_PORTS)
    ctor_arg,             \* the mock_mode argument: "none", "true" or "false"
    SERIAL_AVAILABLE,     \* whether pyserial could be imported
    ctor_exists,          \* os.path.exists(port), per port
    ctor_opens,           \* whether serial.Serial(port) and its resets succeed, per port
    ctor_mock,            \* the local mock_mode after the auto-detection
    ctor_self_mock,       \* self.mock_mode
    ctor_connections,     \* self.serial_connections, a list
    ctor_online,          \* self.slave_online, a list
    ctor_pc               \* "detect", "loop", "done"

ctorVars == <<ctor_ports, ctor_arg, SERIAL_AVAILABLE, ctor_exists, ctor_opens, ctor_mock,
              ctor_self_mock, ctor_connections, ctor_online, ctor_pc>>
VARIABLES
    \* DisplayManager
    total_leds,           \* self.total_leds
    dm_buffer,            \* self.buffer, a list (element k of the list is dm_buffer[k + 1])
    bus,                  \* self.bus: "open", "none" (SMBus failed to open) or "closed"
    dm_pc,                \* "idle", inside close(): "close_clear", "close_show",
                          \* "close_release", after close(): "closed"
    dm_call,              \* the latest call: method, arguments, buffer before it, raised
    dm_trace,             \* what close() has done so far
    dm_shown              \* the frame show() last wrote to the bus (<<>>: none)

dmVars == <<total_leds, dm_buffer, bus, dm_pc, dm_call, dm_trace, dm_shown>>
VARIABLES
    \* one animation instance of any class, stepped on a DisplayManager
    kind,                 \* the class of the instance
    pat_width,            \* self.width (1 for the classes without a width)
    inst,                 \* the instance's own fields: position, pos, direction, state
    inst0,                \* inst when the current step began
    phase,                \* the next statement of _do_step
    steps,                \* completed steps since construction
    events,               \* what the current (or just completed) step has done, in order
    pat_lit,              \* indices the current step has passed to set_led
    pat_shown,            \* the latest show(): the buffer and inst at the call
    pat_prior             \* what the buffer held when the current step began

patVars == <<kind, pat_width, inst, inst0, phase, steps, events, pat_lit, pat_shown,
             pat_prior>>
larsonVars == <<ls_total, ls_width, pos, direction, ls_lit, ls_drawn, lpc>>
webVars == <<animation_thread, animation_running, th_pc, th_running, th_after, h_pc, h_op>>
\* ---- a CircleAnimation and a ScanningChase run side by side (animation.py)
VARIABLES
    tw_total,             \* total_leds of both displays
    tw_circle,            \* the CircleAnimation instance
    tw_chase,             \* the ScanningChase instance
    tw_cframes,           \* the frames the CircleAnimation has shown, in order
    tw_kframes            \* the frames the ScanningChase has shown, in order

twinVars == <<tw_total, tw_circle, tw_chase, tw_cframes, tw_kframes>>

\* ---- DisplayManager.show over the I2C bus (display_manager.py, 42-77)
VARIABLES
    sh_buffer,            \* self.buffer
    sh_bus,               \* self.bus: "open" or "none"
    sh_pc,                \* "idle", "loop", "done", "raised"
    sh_idx,               \* slave_idx of the loop
    sh_writes             \* the write_i2c_block_data calls of the current show

showVars == <<sh_buffer, sh_bus, sh_pc, sh_idx, sh_writes>>

\* ---- web_server: the globals the request handlers own (web_server.py, 26-33)
VARIABLES
    current_animation,    \* name of the animation started last, "None" when there is none
    manual_mode,
    led_states,
    rq_total,             \* display_manager.total_leds
    rq_buffer,            \* the display's frame buffer
    rq_frames,            \* frames the request handlers have dispatched
    rq_count,             \* requests answered so far
    rq_last               \* the request answered last: handler, arguments, HTTP status

reqVars == <<current_animation, manual_mode, led_states, rq_total, rq_buffer, rq_frames,
             rq_count, rq_last>>

vars == <<ctlVars, animVars, packVars, frameVars, larsonVars, webVars, ctorVars, dmVars, patVars,
          twinVars, showVars, reqVars>>

\* ------------------------------------------------------------------ links
\* A transport object: gen identifies the object (a reopened port is a new
\* object), real distinguishes serial.Serial from MockSerial, open is is_open.
Link(g, r, o) == [gen |-> g, real |-> r, open |-> o]
NoConn == Link(-1, FALSE, FALSE)

\* MockSerial: is_open is always True, close() does nothing.
MockSerial(g) == Link(g, FALSE, TRUE)

\* serial.Serial(port, ...) that opened.
RealSerial(g) == Link(g, TRUE, TRUE)

\* conn.close(): a real port is closed when close() returns; when it raises
\* the port keeps its state. MockSerial.close() is a no-op.
CloseLink(c, closes) == IF c.real /\ closes THEN [c EXCEPT !.open = FALSE] ELSE c


\* ------------------------------------------------------- RelayController
NoRes == [i \in Slaves |-> "none"]
NoUsed == [i \in Slaves |-> -1]
AllOff == [i \in Slaves |-> FALSE]
Down(w, g) == [why |-> w, gen |-> g]
NeverDown == Down("none", -1)

\* __init__: mock is the mock_mode in force for the loop over the ports
\* (requested, or auto-detected), opened[i] says whether serial.Serial(port)
\* opened. A port that fails to open gets a MockSerial, is marked offline and
\* turns self.mock_mode on.
InitConnections(mock, opened) ==
    [i \in Slaves |-> IF mock \/ ~opened[i] THEN MockSerial(0) ELSE RealSerial(0)]
InitOnline(mock, opened) == [i \in Slaves |-> mock \/ opened[i]]
InitMockMode(mock, opened) == mock \/ \E i \in Slaves : ~opened[i]

CtlInit ==
    /\ \E mock \in BOOLEAN, opened \in [Slaves -> BOOLEAN] :
         /\ serial_connections = InitConnections(mock, opened)
         /\ slave_online = InitOnline(mock, opened)
         /\ mock_mode = InitMockMode(mock, opened)
    /\ lock = NoThread
    /\ pc = [t \in Threads |-> "idle"]
    /\ idx = [t \in Threads |-> 1]
    /\ conn = [t \in Threads |-> NoConn]
    /\ found = [t \in Threads |-> {}]
    /\ online0 = [t \in Threads |-> AllOff]
    /\ res = [t \in Threads |-> NoRes]
    /\ used = [t \in Threads |-> NoUsed]
    /\ intr = [t \in Threads |-> FALSE]
    /\ interleaved = FALSE
    /\ down = [i \in Slaves |-> IF slave_online[i] THEN NeverDown ELSE Down("boot", 0)]

\* with self._lock: the lock is taken only when nobody holds it.
CanAcquire_NoLock(l) == TRUE
CanAcquire(l) == l = NoThread

\* if not self.slave_online[i]: continue
SkipSlave_Never(on) == FALSE
SkipSlave(on) == ~on

\* Outcomes of the try block of dispatch_frame for one slave: reset_input_buffer
\* and flush are called only when mock_mode is off; write is always called
\* (tests/verify_fix.py makes the write of a MockSerial raise).
Errors == {"drain_err", "write_err", "flush_err"}
IOOutcomes(mm) == IF mm THEN {"ok", "write_err"} ELSE {"ok"} \cup Errors

\* The calls the try block makes on conn, in order, up to the one that raised:
\* reset_input_buffer ("drain") and flush are guarded by `if not
\* self.mock_mode`, a flag of the whole controller.
TransportCalls(mm, o) ==
    IF mm THEN <<"write">>
    ELSE IF o = "drain_err" THEN <<"drain">>
    ELSE IF o = "write_err" THEN <<"drain", "write">>
    ELSE <<"drain", "write", "flush">>

\* conn.write(packet) returned: the packet went out on the link.
PacketWritten(o) == o \in {"ok", "flush_err"}

\* except Exception as e: every transport error (timeouts included) is caught.
Catches_WriteOnly(o) == o = "write_err"
Catches(o) == o \in Errors

\* self.slave_online[i] = False
MarkOffline(online, i) == [online EXCEPT ![i] = FALSE]

\* The for loop goes on with the next slave, after a failure as well.
NextSlave_Break(i, failed) == IF failed THEN NumSlaves + 1 ELSE i + 1
NextSlave(i, failed) == i + 1

HasSent(u) == \E j \in Slaves : PacketWritten(res[u][j])

\* dispatch_frame: with self._lock. The frame's contents decide neither the
\* control flow nor the liveness flags: a packet is represented by the event
\* of its write.
DispatchAcquire(t) ==
    /\ pc[t] = "idle"
    /\ CanAcquire(lock)
    /\ lock' = t
    /\ pc' = [pc EXCEPT ![t] = "d_fetch"]
    /\ idx' = [idx EXCEPT ![t] = 1]
    /\ online0' = [online0 EXCEPT ![t] = slave_online]
    /\ UNCHANGED <<serial_connections, slave_online, mock_mode, conn, found, res, used,
                   intr, interleaved>>
    /\ UNCHANGED <<down, animVars, packVars, frameVars, larsonVars, webVars, ctorVars,
                   dmVars, patVars, twinVars, showVars, reqVars>>

\* for i, conn in enumerate(self.serial_connections): the next element
DispatchFetch(t) ==
    /\ pc[t] = "d_fetch"
    /\ idx[t] <= NumSlaves
    /\ conn' = [conn EXCEPT ![t] = serial_connections[idx[t]]]
    /\ pc' = [pc EXCEPT ![t] = "d_check"]
    /\ UNCHANGED <<serial_connections, slave_online, mock_mode, lock, idx, found, online0,
                   res, used, intr, interleaved>>
    /\ UNCHANGED <<down, animVars, packVars, frameVars, larsonVars, webVars, ctorVars,
                   dmVars, patVars, twinVars, showVars, reqVars>>

\* the loop is exhausted: the with block ends
DispatchDone(t) ==
    /\ pc[t] = "d_fetch"
    /\ idx[t] > NumSlaves
    /\ pc' = [pc EXCEPT ![t] = "d_exit"]
    /\ UNCHANGED <<serial_connections, slave_online, mock_mode, lock, idx, conn, found,
                   online0, res, used, intr, interleaved>>
    /\ UNCHANGED <<down, animVars, packVars, frameVars, larsonVars, webVars, ctorVars,
                   dmVars, patVars, twinVars, showVars, reqVars>>

\* dispatch_frame is called while the lock may be held: the thread blocks at
\* `with self._lock` ...
DispatchWait(t) ==
    /\ pc[t] = "idle"
    /\ pc' = [pc EXCEPT ![t] = "d_wait"]
    /\ UNCHANGED <<serial_connections, slave_online, mock_mode, lock, idx, conn, found,
                   online0, res, used, intr, interleaved>>
    /\ UNCHANGED <<down, animVars, packVars, frameVars, larsonVars, webVars, ctorVars,
                   dmVars, patVars, twinVars, showVars, reqVars>>

\* ... and enters the with block once the lock is free
DispatchEnter(t) ==
    /\ pc[t] = "d_wait"
    /\ CanAcquire(lock)
    /\ lock' = t
    /\ pc' = [pc EXCEPT ![t] = "d_fetch"]
    /\ idx' = [idx EXCEPT ![t] = 1]
    /\ online0' = [online0 EXCEPT ![t] = slave_online]
    /\ UNCHANGED <<serial_connections, slave_online, mock_mode, conn, found, res, used,
                   intr, interleaved>>
    /\ UNCHANGED <<down, animVars, packVars, frameVars, larsonVars, webVars, ctorVars,
                   dmVars, patVars, twinVars, showVars, reqVars>>

\* lines 165-167 inside the with block: len(frame_data) or the padding raises
\* for a frame that is no list (None, or a tuple shorter than total_relays);
\* nothing catches it and the exception leaves dispatch_frame
DispatchMalformed(t) ==
    /\ pc[t] = "d_fetch"
    /\ idx[t] = 1
    /\ pc' = [pc EXCEPT ![t] = "d_raise"]
    /\ UNCHANGED <<serial_connections, slave_online, mock_mode, lock, idx, conn, found,
                   online0, res, used, intr, interleaved>>
    /\ UNCHANGED <<down, animVars, packVars, frameVars, larsonVars, webVars, ctorVars,
                   dmVars, patVars, twinVars, showVars, reqVars>>

DispatchCheck(t) ==
    /\ pc[t] = "d_check"
    /\ IF SkipSlave(slave_online[idx[t]])
         THEN /\ pc' = [pc EXCEPT ![t] = "d_fetch"]
              /\ idx' = [idx EXCEPT ![t] = idx[t] + 1]
              /\ res' = [res EXCEPT ![t][idx[t]] = "skip"]
         ELSE /\ pc' = [pc EXCEPT ![t] = "d_io"]
              /\ UNCHANGED <<idx, res>>
    /\ UNCHANGED <<serial_connections, slave_online, mock_mode, lock, conn, found, online0,
                   used, intr, interleaved>>
    /\ UNCHANGED <<down, animVars, packVars, frameVars, larsonVars, webVars, ctorVars,
                   dmVars, patVars, twinVars, showVars, reqVars>>

\* the try block (drain, write, flush) and its except clause, on the fetched conn
DispatchIO(t) ==
    /\ pc[t] = "d_io"
    /\ \E o \in IOOutcomes(mock_mode) :
         LET i == idx[t]
             wrote == PacketWritten(o)
         IN  /\ res' = [res EXCEPT ![t][i] = o]
             /\ used' = [used EXCEPT ![t][i] = conn[t].gen]
             /\ interleaved' = (interleaved \/ (wrote /\ HasSent(t) /\ intr[t]))
             /\ intr' = [u \in Threads |->
                           IF wrote /\ u # t /\ HasSent(u) THEN TRUE ELSE intr[u]]
             /\ IF o = "ok"
                  THEN /\ pc' = [pc EXCEPT ![t] = "d_fetch"]
                       /\ idx' = [idx EXCEPT ![t] = NextSlave(i, FALSE)]
                       /\ UNCHANGED slave_online
                  ELSE IF Catches(o)
                         THEN /\ slave_online' = MarkOffline(slave_online, i)
                              /\ pc' = [pc EXCEPT ![t] = "d_fetch"]
                              /\ idx' = [idx EXCEPT ![t] = NextSlave(i, TRUE)]
                         ELSE /\ pc' = [pc EXCEPT ![t] = "d_raise"]
                              /\ UNCHANGED <<slave_online, idx>>
             /\ down' = [j \in Slaves |->
                           IF slave_online[j] /\ ~slave_online'[j]
                             THEN Down(o, conn[t].gen) ELSE down[j]]
    /\ UNCHANGED <<serial_connections, mock_mode, lock, conn, found, online0>>
    /\ UNCHANGED <<animVars, packVars, frameVars, larsonVars, webVars, ctorVars, dmVars,
                   patVars, twinVars, showVars, reqVars>>

\* scan_bus (takes no lock)
ScanBegin(t) ==
    /\ pc[t] = "idle"
    /\ \A i \in Slaves : serial_connections[i].gen < MaxGen
    /\ pc' = [pc EXCEPT ![t] = "s_iter"]
    /\ idx' = [idx EXCEPT ![t] = 1]
    /\ found' = [found EXCEPT ![t] = {}]
    /\ online0' = [online0 EXCEPT ![t] = slave_online]
    /\ UNCHANGED <<serial_connections, slave_online, mock_mode, lock, conn, res, used,
                   intr, interleaved>>
    /\ UNCHANGED <<down, animVars, packVars, frameVars, larsonVars, webVars, ctorVars,
                   dmVars, patVars, twinVars, showVars, reqVars>>

\* The connection registered after the reconnection attempt: a MockSerial in
\* mock mode, the newly opened port when serial.Serial succeeded, else the old
\* (closed) object.
Reopen_KeepOld(c, mm, opens) == c
Reopen_Hardware(c, mm, opens) == IF opens THEN RealSerial(c.gen + 1) ELSE c
Reopen(c, mm, opens) ==
    IF mm THEN MockSerial(c.gen + 1)
    ELSE IF opens THEN RealSerial(c.gen + 1) ELSE c

\* self.slave_online[i] = True is reached only past the open.
Reopened_Always(mm, opens) == TRUE
Reopened(mm, opens) == mm \/ opens

\* lines 118-139: slave i is offline, so close the old handle and reopen
ScanReconnect(t) ==
    /\ pc[t] = "s_iter"
    /\ idx[t] <= NumSlaves
    /\ ~slave_online[idx[t]]
    /\ serial_connections[idx[t]].gen < MaxGen
    /\ \E closes \in BOOLEAN, opens \in BOOLEAN :
         LET i == idx[t]
             old == CloseLink(serial_connections[i], closes)
         IN  /\ serial_connections' =
                   [serial_connections EXCEPT ![i] = Reopen(old, mock_mode, opens)]
             /\ slave_online' = [slave_online EXCEPT ![i] = Reopened(mock_mode, opens)]
             /\ res' = [res EXCEPT ![t][i] =
                          IF Reopened(mock_mode, opens) THEN "reopened" ELSE "reopen_failed"]
    /\ pc' = [pc EXCEPT ![t] = "s_probe"]
    /\ UNCHANGED <<mock_mode, lock, idx, conn, found, online0, used, intr, interleaved>>
    /\ UNCHANGED <<down, animVars, packVars, frameVars, larsonVars, webVars, ctorVars,
                   dmVars, patVars, twinVars, showVars, reqVars>>

\* line 118 finds slave i online: no reconnection
ScanKeep(t) ==
    /\ pc[t] = "s_iter"
    /\ idx[t] <= NumSlaves
    /\ slave_online[idx[t]]
    /\ pc' = [pc EXCEPT ![t] = "s_probe"]
    /\ UNCHANGED <<serial_connections, slave_online, mock_mode, lock, idx, conn, found,
                   online0, res, used, intr, interleaved>>
    /\ UNCHANGED <<down, animVars, packVars, frameVars, larsonVars, webVars, ctorVars,
                   dmVars, patVars, twinVars, showVars, reqVars>>

\* if self.mock_mode or (hasattr(conn, 'is_open') and conn.is_open)
ProbeOk(mm, c) == mm \/ c.open

\* lines 141-148: the is_open check on the registered connection
ScanProbe(t) ==
    /\ pc[t] = "s_probe"
    /\ LET i == idx[t]
           c == serial_connections[i]
       IN  IF ProbeOk(mock_mode, c)
             THEN /\ found' = [found EXCEPT ![t] = found[t] \cup {i}]
                  /\ UNCHANGED <<slave_online, res>>
             ELSE /\ slave_online' = [slave_online EXCEPT ![i] = FALSE]
                  /\ res' = [res EXCEPT ![t][i] = "closed"]
                  /\ UNCHANGED found
    /\ down' = [j \in Slaves |->
                  IF slave_online[j] /\ ~slave_online'[j]
                    THEN Down("closed", serial_connections[j].gen) ELSE down[j]]
    /\ pc' = [pc EXCEPT ![t] = "s_iter"]
    /\ idx' = [idx EXCEPT ![t] = idx[t] + 1]
    /\ UNCHANGED <<serial_connections, mock_mode, lock, conn, online0, used, intr,
                   interleaved>>
    /\ UNCHANGED <<animVars, packVars, frameVars, larsonVars, webVars, ctorVars, dmVars,
                   patVars, twinVars, showVars, reqVars>>

\* return found
ScanDone(t) ==
    /\ pc[t] = "s_iter"
    /\ idx[t] > NumSlaves
    /\ pc' = [pc EXCEPT ![t] = "s_exit"]
    /\ UNCHANGED <<serial_connections, slave_online, mock_mode, lock, idx, conn, found,
                   online0, res, used, intr, interleaved>>
    /\ UNCHANGED <<down, animVars, packVars, frameVars, larsonVars, webVars, ctorVars,
                   dmVars, patVars, twinVars, showVars, reqVars>>

\* reset_buffers: if self.mock_mode: return
ResetMock(t) ==
    /\ pc[t] = "idle"
    /\ mock_mode
    /\ pc' = [pc EXCEPT ![t] = "r_exit"]
    /\ online0' = [online0 EXCEPT ![t] = slave_online]
    /\ UNCHANGED <<serial_connections, slave_online, mock_mode, lock, idx, conn, found,
                   res, used, intr, interleaved>>
    /\ UNCHANGED <<down, animVars, packVars, frameVars, larsonVars, webVars, ctorVars,
                   dmVars, patVars, twinVars, showVars, reqVars>>

\* reset_buffers: with self._lock
ResetAcquire(t) ==
    /\ pc[t] = "idle"
    /\ ~mock_mode
    /\ CanAcquire(lock)
    /\ lock' = t
    /\ pc' = [pc EXCEPT ![t] = "r_iter"]
    /\ idx' = [idx EXCEPT ![t] = 1]
    /\ online0' = [online0 EXCEPT ![t] = slave_online]
    /\ UNCHANGED <<serial_connections, slave_online, mock_mode, conn, found, res, used,
                   intr, interleaved>>
    /\ UNCHANGED <<down, animVars, packVars, frameVars, larsonVars, webVars, ctorVars,
                   dmVars, patVars, twinVars, showVars, reqVars>>

\* except Exception in reset_buffers: self.slave_online[i] = False
ResetOffline(o) == o = "reset_err"

\* one iteration of the loop of reset_buffers
ResetStep(t) ==
    /\ pc[t] = "r_iter"
    /\ idx[t] <= NumSlaves
    /\ LET i == idx[t]
       IN  IF ~slave_online[i]
             THEN /\ res' = [res EXCEPT ![t][i] = "skip"]
                  /\ UNCHANGED slave_online
             ELSE \E o \in {"reset_ok", "reset_err"} :
                    /\ res' = [res EXCEPT ![t][i] = o]
                    /\ slave_online' =
                         IF ResetOffline(o) THEN [slave_online EXCEPT ![i] = FALSE]
                         ELSE slave_online
    /\ down' = [j \in Slaves |->
                  IF slave_online[j] /\ ~slave_online'[j]
                    THEN Down("reset_err", serial_connections[j].gen) ELSE down[j]]
    /\ idx' = [idx EXCEPT ![t] = idx[t] + 1]
    /\ UNCHANGED <<serial_connections, mock_mode, lock, pc, conn, found, online0, used,
                   intr, interleaved>>
    /\ UNCHANGED <<animVars, packVars, frameVars, larsonVars, webVars, ctorVars, dmVars,
                   patVars, twinVars, showVars, reqVars>>

ResetDone(t) ==
    /\ pc[t] = "r_iter"
    /\ idx[t] > NumSlaves
    /\ pc' = [pc EXCEPT ![t] = "r_exit"]
    /\ UNCHANGED <<serial_connections, slave_online, mock_mode, lock, idx, conn, found,
                   online0, res, used, intr, interleaved>>
    /\ UNCHANGED <<down, animVars, packVars, frameVars, larsonVars, webVars, ctorVars,
                   dmVars, patVars, twinVars, showVars, reqVars>>

\* close(): conn.close() on every connection, an exception is printed and the
\* loop goes on
Close(t) ==
    /\ pc[t] = "idle"
    /\ \E closes \in [Slaves -> BOOLEAN] :
         serial_connections' =
             [i \in Slaves |-> CloseLink(serial_connections[i], closes[i])]
    /\ UNCHANGED <<slave_online, mock_mode, lock, pc, idx, conn, found, online0, res,
                   used, intr, interleaved>>
    /\ UNCHANGED <<down, animVars, packVars, frameVars, larsonVars, webVars, ctorVars,
                   dmVars, patVars, twinVars, showVars, reqVars>>

\* Leaving `with self._lock` (normally or by an exception) releases the lock
\* the thread holds.
Release_Keep(l, t) == l
Release(l, t) == IF l = t THEN NoThread ELSE l

\* The call is over: the with block releases the lock (also when an exception
\* leaves it) and control is back at the caller.
Return(t) ==
    /\ pc[t] \in {"d_exit", "d_raise", "s_exit", "r_exit"}
    /\ lock' = Release(lock, t)
    /\ pc' = [pc EXCEPT ![t] = "idle"]
    /\ idx' = [idx EXCEPT ![t] = 1]
    /\ conn' = [conn EXCEPT ![t] = NoConn]
    /\ found' = [found EXCEPT ![t] = {}]
    /\ online0' = [online0 EXCEPT ![t] = AllOff]
    /\ res' = [res EXCEPT ![t] = NoRes]
    /\ used' = [used EXCEPT ![t] = NoUsed]
    /\ intr' = [intr EXCEPT ![t] = FALSE]
    /\ UNCHANGED <<serial_connections, slave_online, mock_mode, interleaved>>
    /\ UNCHANGED <<down, animVars, packVars, frameVars, larsonVars, webVars, ctorVars,
                   dmVars, patVars, twinVars, showVars, reqVars>>

DispatchStep(t) ==
    \/ DispatchAcquire(t) \/ DispatchFetch(t) \/ DispatchCheck(t) \/ DispatchIO(t)
    \/ DispatchDone(t)

ScanStep(t) ==
    \/ ScanBegin(t) \/ ScanReconnect(t) \/ ScanKeep(t) \/ ScanProbe(t) \/ ScanDone(t)

ResetBuffersStep(t) ==
    \/ ResetMock(t) \/ ResetAcquire(t) \/ ResetStep(t) \/ ResetDone(t)

\* ---------------------------------------------------------------- Animation
Leds == 0..(TotalLeds - 1)
Max(a, b) == IF a >= b THEN a ELSE b

\* Animation.__init__ and ScanningChase.__init__: last_update_time = 0,
\* position = 0; the display buffer starts all off.
AnimInit ==
    /\ now = ClockStart
    /\ last_update_time = 0
    /\ speed \in 1..MaxSpeed
    /\ width \in 1..MaxWidth
    /\ min_relay_delay \in 1..MaxMinDelay
    /\ position = 0
    /\ buffer = [k \in Leds |-> 0]
    /\ apc = "idle"
    /\ start = -1
    /\ sw_now = -1
    /\ wake = -1
    /\ showAt = -1
    /\ prevShowAt = -1
    /\ prevStart = -1
    /\ prevLast = 0
    /\ slept = FALSE

\* The clock advances at any point of the step and between two steps.
Tick ==
    /\ now < ClockStart + MaxElapse
    /\ now' = now + 1
    /\ UNCHANGED <<last_update_time, speed, width, min_relay_delay, position, buffer, apc,
                   start, sw_now, wake, showAt, prevShowAt, prevStart, prevLast, slept>>
    /\ UNCHANGED <<ctlVars, packVars, frameVars, larsonVars, webVars, ctorVars, dmVars,
                   patVars, twinVars, showVars, reqVars>>

\* step(): start = time.time()
StepBegin ==
    /\ apc = "idle"
    /\ start' = now
    /\ prevStart' = start
    /\ apc' = "draw"
    /\ UNCHANGED <<now, last_update_time, speed, width, min_relay_delay, position, buffer,
                   sw_now, wake, showAt, prevShowAt, prevLast, slept>>
    /\ UNCHANGED <<ctlVars, packVars, frameVars, larsonVars, webVars, ctorVars, dmVars,
                   patVars, twinVars, showVars, reqVars>>

\* The window of ScanningChase: (position + i) % total_leds for i in range(width)
Window(p, w) == {(p + k) % TotalLeds : k \in 0..(w - 1)}

\* _do_step: dm.clear() and the set_led loop
Draw ==
    /\ apc = "draw"
    /\ buffer' = [k \in Leds |-> IF k \in Window(position, width) THEN 1 ELSE 0]
    /\ apc' = "show"
    /\ UNCHANGED <<now, last_update_time, speed, width, min_relay_delay, position, start,
                   sw_now, wake, showAt, prevShowAt, prevStart, prevLast, slept>>
    /\ UNCHANGED <<ctlVars, packVars, frameVars, larsonVars, webVars, ctorVars, dmVars,
                   patVars, twinVars, showVars, reqVars>>

\* _do_step: self.dm.show()
Show ==
    /\ apc = "show"
    /\ prevShowAt' = showAt
    /\ showAt' = now
    /\ apc' = "advance"
    /\ UNCHANGED <<now, last_update_time, speed, width, min_relay_delay, position, buffer,
                   start, sw_now, wake, prevStart, prevLast, slept>>
    /\ UNCHANGED <<ctlVars, packVars, frameVars, larsonVars, webVars, ctorVars, dmVars,
                   patVars, twinVars, showVars, reqVars>>

\* _do_step: self.position = (self.position + 1) % self.dm.total_leds
Advance ==
    /\ apc = "advance"
    /\ position' = (position + 1) % TotalLeds
    /\ apc' = "wait"
    /\ UNCHANGED <<now, last_update_time, speed, width, min_relay_delay, buffer, start,
                   sw_now, wake, showAt, prevShowAt, prevStart, prevLast, slept>>
    /\ UNCHANGED <<ctlVars, packVars, frameVars, larsonVars, webVars, ctorVars, dmVars,
                   patVars, twinVars, showVars, reqVars>>

\* safe_wait: target_delay = max(duration, self.min_relay_delay)
TargetDelay_Requested(duration, m) == duration
TargetDelay(duration, m) == Max(duration, m)

\* safe_wait: remaining = target_delay - (now - self.last_update_time)
Remaining(duration, m, n, last) == TargetDelay(duration, m) - (n - last)

\* safe_wait: now = time.time()
SafeWaitEnter ==
    /\ apc = "wait"
    /\ sw_now' = now
    /\ apc' = IF Remaining(speed, min_relay_delay, now, last_update_time) > 0
                THEN "sleep" ELSE "set_last"
    /\ UNCHANGED <<now, last_update_time, speed, width, min_relay_delay, position, buffer,
                   start, wake, showAt, prevShowAt, prevStart, prevLast>>
    /\ slept' = FALSE
    /\ UNCHANGED <<ctlVars, packVars, frameVars, larsonVars, webVars, ctorVars, dmVars,
                   patVars, twinVars, showVars, reqVars>>

\* safe_wait: time.sleep(remaining) is entered
SleepCall ==
    /\ apc = "sleep"
    /\ wake' = now + Remaining(speed, min_relay_delay, sw_now, last_update_time)
    /\ apc' = "sleeping"
    /\ UNCHANGED <<now, last_update_time, speed, width, min_relay_delay, position, buffer,
                   start, sw_now, showAt, prevShowAt, prevStart, prevLast>>
    /\ slept' = TRUE
    /\ UNCHANGED <<ctlVars, packVars, frameVars, larsonVars, webVars, ctorVars, dmVars,
                   patVars, twinVars, showVars, reqVars>>

\* time.sleep returns once the requested time has passed
SleepReturn ==
    /\ apc = "sleeping"
    /\ now >= wake
    /\ apc' = "set_last"
    /\ UNCHANGED <<now, last_update_time, speed, width, min_relay_delay, position, buffer,
                   start, sw_now, wake, showAt, prevShowAt, prevStart, prevLast, slept>>
    /\ UNCHANGED <<ctlVars, packVars, frameVars, larsonVars, webVars, ctorVars, dmVars,
                   patVars, twinVars, showVars, reqVars>>

\* safe_wait: self.last_update_time = time.time()
SetLast ==
    /\ apc = "set_last"
    /\ last_update_time' = now
    /\ prevLast' = last_update_time
    /\ apc' = "measure"
    /\ UNCHANGED <<now, speed, width, min_relay_delay, position, buffer, start, sw_now,
                   wake, showAt, prevShowAt, prevStart, slept>>
    /\ UNCHANGED <<ctlVars, packVars, frameVars, larsonVars, webVars, ctorVars, dmVars,
                   patVars, twinVars, showVars, reqVars>>

\* step(): elapsed = time.time() - start, compared with the threshold (a
\* warning is logged, nothing else), and step returns
StepEnd ==
    /\ apc = "measure"
    /\ apc' = "idle"
    /\ UNCHANGED <<now, last_update_time, speed, width, min_relay_delay, position, buffer,
                   start, sw_now, wake, showAt, prevShowAt, prevStart, prevLast, slept>>
    /\ UNCHANGED <<ctlVars, packVars, frameVars, larsonVars, webVars, ctorVars, dmVars,
                   patVars, twinVars, showVars, reqVars>>

AnimStep ==
    \/ Tick \/ StepBegin \/ Draw \/ Show \/ Advance
    \/ SafeWaitEnter \/ SleepCall \/ SleepReturn \/ SetLast \/ StepEnd

\* --------------------------------------------------------------- _pack_bits
RECURSIVE Pow2(_)
Pow2(n) == IF n = 0 THEN 1 ELSE 2 * Pow2(n - 1)

\* The inner loop of _pack_bits from bit b on: byte_val |= (1 << b) for every
\* b with i + b < len(bits) and bits[i + b] truthy. The bits set are distinct,
\* so the or is a sum. bs is 1-based, the code's bits[k] is bs[k + 1].
BitWeight_MsbFirst(b) == Pow2(7 - b)
BitWeight(b) == Pow2(b)

\* if bits[i + b]: any nonzero value counts as set
Truthy(v) == v # 0

RECURSIVE ByteVal(_, _, _)
ByteVal(bs, i, b) ==
    IF b > 7 THEN 0
    ELSE (IF i + b < Len(bs) /\ Truthy(bs[i + b + 1]) THEN BitWeight(b) ELSE 0)
         + ByteVal(bs, i, b + 1)

\* The outer loop: for i in range(0, len(bits), 8)
RECURSIVE PackFrom(_, _)
PackFrom(bs, i) ==
    IF i >= Len(bs) THEN <<>> ELSE <<ByteVal(bs, i, 0)>> \o PackFrom(bs, i + 8)

_pack_bits(bs) == PackFrom(bs, 0)

\* 2 stands for any value other than 0 and 1
BitValues == {0, 1, 2}
BitInputs == UNION {[1..n -> BitValues] : n \in 0..MaxBits}

PackInit ==
    /\ bits \in BitInputs
    /\ packed = <<>>
    /\ ppc = "input"

PackBits ==
    /\ ppc = "input"
    /\ packed' = _pack_bits(bits)
    /\ ppc' = "done"
    /\ UNCHANGED bits
    /\ UNCHANGED <<ctlVars, animVars, frameVars, larsonVars, webVars, ctorVars, dmVars,
                   patVars, twinVars, showVars, reqVars>>

\* ------------------------------------------- dispatch_frame: the data path
\* What one dispatch_frame call puts on the wire, as a function of the frame
\* it is given and of the configuration. The call runs under self._lock, so
\* it is one step here; its control flow is the dispatcher machine above.
FrameSlaves == 1..NumSlaves

\* frame_data += [0] * (self.total_relays - len(frame_data)) when it is short;
\* a frame that is long enough is left as it is
Pad(f, total) ==
    IF Len(f) < total THEN f \o [k \in 1..(total - Len(f)) |-> 0] ELSE f

Min(a, b) == IF a <= b THEN a ELSE b

\* The Python slice f[a:b] for 0 <= a <= b: both ends are clamped to len(f).
Slice(f, a, b) == [k \in 1..(Min(b, Len(f)) - Min(a, Len(f))) |-> f[Min(a, Len(f)) + k]]

\* start_idx = i * LEDS_PER_SLAVE, end_idx = start_idx + LEDS_PER_SLAVE for
\* the slave at list index i (slave number i + 1)
StartIdx(i, lps) == i * lps
EndIdx(i, lps) == StartIdx(i, lps) + lps
SlaveChunk(f, i, lps) == Slice(f, StartIdx(i, lps), EndIdx(i, lps))

\* packet = bytearray([0xFF, 0xAA, len(packed_bytes)]); packet.extend(packed_bytes);
\* packet.extend([0x55, 0xFF])
LengthByte_Channels(chunk, payload) == Len(chunk)
LengthByte(chunk, payload) == Len(payload)
StartMarker == <<255, 170>>
EndMarker == <<85, 255>>
Packet(chunk) ==
    StartMarker \o <<LengthByte(chunk, _pack_bits(chunk))>> \o _pack_bits(chunk) \o EndMarker

\* bytearray(...) takes values 0..255 only: a longer payload raises inside the
\* try block and is handled like a failed write
PacketBuilt(chunk) == Len(_pack_bits(chunk)) \in 0..255

\* every frame up to MaxFrameLen channels, and the frame of the specification's
\* concrete scenario
ScenarioFrame == <<1, 0, 1, 1, 0, 0, 0, 0>>
FrameInputs == UNION {[1..n -> {0, 1}] : n \in 0..MaxFrameLen} \cup {ScenarioFrame}
LedsPerSlaveValues == {1, 3, 8}

\* A controller after __init__ and any number of earlier calls: some of the
\* configured slaves may be offline.
FrameInit ==
    /\ frame_data \in FrameInputs
    /\ frame_arg = frame_data
    /\ total_relays \in 0..MaxTotal
    /\ LEDS_PER_SLAVE \in LedsPerSlaveValues
    /\ ports \in 1..NumSlaves
    /\ fr_online \in [FrameSlaves -> BOOLEAN]
    /\ \A i \in FrameSlaves : i > ports => ~fr_online[i]
    /\ fr_online0 = fr_online
    /\ wire = [i \in FrameSlaves |-> <<>>]
    /\ fpc = "call"

\* dispatch_frame(frame_data): pad, then for every online slave slice, pack and
\* write; failed is the set of online slaves whose write raises (the packet
\* was handed to conn.write, the slave goes offline).
DispatchFrame ==
    /\ fpc = "call"
    /\ frame_data' = Pad(frame_data, total_relays)
    /\ \E failed \in SUBSET {i \in 1..ports : fr_online[i]} :
         /\ wire' = [i \in FrameSlaves |->
                       IF i <= ports /\ fr_online[i]
                            /\ PacketBuilt(SlaveChunk(frame_data', i - 1, LEDS_PER_SLAVE))
                         THEN Append(wire[i],
                                     Packet(SlaveChunk(frame_data', i - 1, LEDS_PER_SLAVE)))
                         ELSE wire[i]]
         /\ fr_online' = [i \in FrameSlaves |->
                            fr_online[i] /\ i \notin failed
                              /\ PacketBuilt(SlaveChunk(frame_data', i - 1, LEDS_PER_SLAVE))]
    /\ fpc' = "done"
    /\ UNCHANGED <<frame_arg, total_relays, LEDS_PER_SLAVE, ports, fr_online0>>
    /\ UNCHANGED <<ctlVars, animVars, packVars, larsonVars, webVars, ctorVars, dmVars,
                   patVars, twinVars, showVars, reqVars>>

\* ------------------------------------------------------------ LarsonScanner
\* LarsonScanner.__init__: pos = 0, direction = 1
LarsonInit ==
    /\ ls_total \in 1..MaxLarsonTotal
    /\ ls_width \in 1..MaxLarsonWidth
    /\ pos = 0
    /\ direction = 1
    /\ ls_lit = {}
    /\ ls_drawn = <<>>
    /\ lpc = "draw"

\* if 0 <= idx < self.dm.total_leds
InRange_Any(i, total) == TRUE
InRange(i, total) == 0 <= i /\ i < total

\* idx = self.pos + i for i in range(self.width), kept when it is in range
LarsonWindow(p, w, total) == {i \in {p + k : k \in 0..(w - 1)} : InRange(i, total)}

\* _do_step: dm.clear(), the set_led loop and dm.show()
LarsonDraw ==
    /\ lpc = "draw"
    /\ ls_lit' = LarsonWindow(pos, ls_width, ls_total)
    /\ ls_drawn' = <<pos>>
    /\ lpc' = "advance"
    /\ UNCHANGED <<ls_total, ls_width, pos, direction>>
    /\ UNCHANGED <<ctlVars, animVars, packVars, frameVars, webVars, ctorVars, dmVars,
                   patVars, twinVars, showVars, reqVars>>

\* if self.pos > self.dm.total_leds - self.width or self.pos < 0
Bounce(p, w, total) == p > total - w \/ p < 0

\* _do_step: self.pos += self.direction, then the direction test; the wait
\* that ends the step is safe_wait, modelled with the animation clock
LarsonAdvance ==
    /\ lpc = "advance"
    /\ pos' = pos + direction
    /\ direction' = IF Bounce(pos', ls_width, ls_total) THEN -direction ELSE direction
    /\ lpc' = "draw"
    /\ UNCHANGED <<ls_total, ls_width, ls_lit, ls_drawn>>
    /\ UNCHANGED <<ctlVars, animVars, packVars, frameVars, webVars, ctorVars, dmVars,
                   patVars, twinVars, showVars, reqVars>>

\* ------------------------------------------------- web_server: animations
AnimThreads == 1..MaxAnimThreads
NoAnim == 0
Handlers == {"h1", "h2"}
Alive(a) == th_pc[a] \notin {"unborn", "dead"}

\* module globals at import: animation_thread = None, animation_running = False
WebInit ==
    /\ animation_thread = NoAnim
    /\ animation_running = FALSE
    /\ th_pc = [a \in AnimThreads |-> "unborn"]
    /\ th_running = [a \in AnimThreads |-> FALSE]
    /\ th_after = [a \in AnimThreads |-> 0]
    /\ h_pc = [h \in Handlers |-> "idle"]
    /\ h_op = [h \in Handlers |-> "none"]

\* while self.running
LoopContinues_Always(r) == TRUE
LoopContinues(r) == r

\* AnimationThread.run: the test of the while loop
LoopTest(a) ==
    /\ th_pc[a] = "test"
    /\ th_pc' = [th_pc EXCEPT ![a] = IF LoopContinues(th_running[a]) THEN "call" ELSE "dead"]
    /\ UNCHANGED <<animation_thread, animation_running, th_running, th_after, h_pc, h_op>>
    /\ UNCHANGED <<ctlVars, animVars, packVars, frameVars, larsonVars, ctorVars, dmVars,
                   patVars, twinVars, showVars, reqVars>>

\* run: self.animation.step() is entered
StepCall(a) ==
    /\ th_pc[a] = "call"
    /\ th_pc' = [th_pc EXCEPT ![a] = "step"]
    /\ th_after' = [th_after EXCEPT ![a] =
                      IF th_running[a] THEN @ ELSE Min(@ + 1, 2)]
    /\ UNCHANGED <<animation_thread, animation_running, th_running, h_pc, h_op>>
    /\ UNCHANGED <<ctlVars, animVars, packVars, frameVars, larsonVars, ctorVars, dmVars,
                   patVars, twinVars, showVars, reqVars>>

\* step: the pattern is drawn and dm.show() starts the dispatch
StepShow(a) ==
    /\ th_pc[a] = "step"
    /\ th_pc' = [th_pc EXCEPT ![a] = "show"]
    /\ UNCHANGED <<animation_thread, animation_running, th_running, th_after, h_pc, h_op>>
    /\ UNCHANGED <<ctlVars, animVars, packVars, frameVars, larsonVars, ctorVars, dmVars,
                   patVars, twinVars, showVars, reqVars>>

\* run: except Exception: break
StepRaise(a) ==
    /\ th_pc[a] = "step"
    /\ th_pc' = [th_pc EXCEPT ![a] = "dead"]
    /\ UNCHANGED <<animation_thread, animation_running, th_running, th_after, h_pc, h_op>>
    /\ UNCHANGED <<ctlVars, animVars, packVars, frameVars, larsonVars, ctorVars, dmVars,
                   patVars, twinVars, showVars, reqVars>>

\* step: the dispatch is complete, safe_wait has waited, step() returns
ShowDone(a) ==
    /\ th_pc[a] = "show"
    /\ th_pc' = [th_pc EXCEPT ![a] = "test"]
    /\ UNCHANGED <<animation_thread, animation_running, th_running, th_after, h_pc, h_op>>
    /\ UNCHANGED <<ctlVars, animVars, packVars, frameVars, larsonVars, ctorVars, dmVars,
                   patVars, twinVars, showVars, reqVars>>

ThreadStep(a) == LoopTest(a) \/ StepCall(a) \/ StepShow(a) \/ StepRaise(a) \/ ShowDone(a)

\* if animation_running: stop_animation()
AfterRunningTest(running, otherwise) == IF running THEN "stop_signal" ELSE otherwise

\* POST /api/animation/start up to the animation_running test
BeginStart(h) ==
    /\ h_pc[h] = "idle"
    /\ \E a \in AnimThreads : th_pc[a] = "unborn"
    /\ h_op' = [h_op EXCEPT ![h] = "start"]
    /\ h_pc' = [h_pc EXCEPT ![h] = AfterRunningTest(animation_running, "start_spawn")]
    /\ UNCHANGED <<animation_thread, animation_running, th_pc, th_running, th_after>>
    /\ UNCHANGED <<ctlVars, animVars, packVars, frameVars, larsonVars, ctorVars, dmVars,
                   patVars, twinVars, showVars, reqVars>>

\* toggle_led, set_all_leds, trigger_led up to the animation_running test
BeginManual(h) ==
    /\ h_pc[h] = "idle"
    /\ h_op' = [h_op EXCEPT ![h] = "manual"]
    /\ h_pc' = [h_pc EXCEPT ![h] = AfterRunningTest(animation_running, "manual_mutate")]
    /\ UNCHANGED <<animation_thread, animation_running, th_pc, th_running, th_after>>
    /\ UNCHANGED <<ctlVars, animVars, packVars, frameVars, larsonVars, ctorVars, dmVars,
                   patVars, twinVars, showVars, reqVars>>

\* POST /api/animation/stop
BeginStop(h) ==
    /\ h_pc[h] = "idle"
    /\ h_op' = [h_op EXCEPT ![h] = "stop"]
    /\ h_pc' = [h_pc EXCEPT ![h] = "stop_signal"]
    /\ UNCHANGED <<animation_thread, animation_running, th_pc, th_running, th_after>>
    /\ UNCHANGED <<ctlVars, animVars, packVars, frameVars, larsonVars, ctorVars, dmVars,
                   patVars, twinVars, showVars, reqVars>>

\* stop_animation: if animation_thread: animation_thread.stop()
StopSignal(h) ==
    /\ h_pc[h] = "stop_signal"
    /\ IF animation_thread # NoAnim
         THEN /\ th_running' = [th_running EXCEPT ![animation_thread] = FALSE]
              /\ h_pc' = [h_pc EXCEPT ![h] = "stop_join"]
         ELSE /\ h_pc' = [h_pc EXCEPT ![h] = "stop_finish"]
              /\ UNCHANGED th_running
    /\ UNCHANGED <<animation_thread, animation_running, th_pc, th_after, h_op>>
    /\ UNCHANGED <<ctlVars, animVars, packVars, frameVars, larsonVars, ctorVars, dmVars,
                   patVars, twinVars, showVars, reqVars>>

\* join(timeout=3.0) returns when the thread has ended or the timeout elapsed
JoinReturns(alive, timed_out) == ~alive \/ timed_out

\* stop_animation: animation_thread.join(timeout=3.0), the is_alive warning and
\* animation_thread = None. When another handler has cleared the global
\* meanwhile, animation_thread.join raises AttributeError and the request fails.
StopJoin(h) ==
    /\ h_pc[h] = "stop_join"
    /\ IF animation_thread = NoAnim
         THEN /\ h_pc' = [h_pc EXCEPT ![h] = "idle"]
              /\ h_op' = [h_op EXCEPT ![h] = "none"]
              /\ UNCHANGED animation_thread
         ELSE /\ \E timed_out \in BOOLEAN : JoinReturns(Alive(animation_thread), timed_out)
              /\ animation_thread' = NoAnim
              /\ h_pc' = [h_pc EXCEPT ![h] = "stop_finish"]
              /\ UNCHANGED h_op
    /\ UNCHANGED <<animation_running, th_pc, th_running, th_after>>
    /\ UNCHANGED <<ctlVars, animVars, packVars, frameVars, larsonVars, ctorVars, dmVars,
                   patVars, twinVars, showVars, reqVars>>

\* where stop_animation returns to
AfterStop(op) ==
    IF op = "start" THEN "start_spawn" ELSE IF op = "manual" THEN "manual_mutate" ELSE "idle"

\* stop_animation: animation_running = False, reset_hardware() clears the
\* buffer and dispatches it, led_states is reset; then back in the caller
StopFinish(h) ==
    /\ h_pc[h] = "stop_finish"
    /\ animation_running' = FALSE
    /\ h_pc' = [h_pc EXCEPT ![h] = AfterStop(h_op[h])]
    /\ h_op' = [h_op EXCEPT ![h] = IF AfterStop(h_op[h]) = "idle" THEN "none" ELSE @]
    /\ UNCHANGED <<animation_thread, th_pc, th_running, th_after>>
    /\ UNCHANGED <<ctlVars, animVars, packVars, frameVars, larsonVars, ctorVars, dmVars,
                   patVars, twinVars, showVars, reqVars>>

\* start_animation: an unknown name is answered with an error; else
\* animation_running = True and a new AnimationThread is stored and started
StartSpawn(h) ==
    /\ h_pc[h] = "start_spawn"
    /\ \E known \in BOOLEAN :
         IF known
           THEN /\ \E a \in AnimThreads :
                     /\ th_pc[a] = "unborn"
                     /\ \A b \in AnimThreads : th_pc[b] = "unborn" => a <= b
                     /\ animation_thread' = a
                     /\ th_pc' = [th_pc EXCEPT ![a] = "test"]
                     /\ th_running' = [th_running EXCEPT ![a] = TRUE]
                /\ animation_running' = TRUE
           ELSE UNCHANGED <<animation_thread, animation_running, th_pc, th_running>>
    /\ h_pc' = [h_pc EXCEPT ![h] = "idle"]
    /\ h_op' = [h_op EXCEPT ![h] = "none"]
    /\ UNCHANGED th_after
    /\ UNCHANGED <<ctlVars, animVars, packVars, frameVars, larsonVars, ctorVars, dmVars,
                   patVars, twinVars, showVars, reqVars>>

\* toggle_led, set_all_leds, trigger_led: led_states is changed, the buffer
\* is cleared, set and shown
ManualMutate(h) ==
    /\ h_pc[h] = "manual_mutate"
    /\ h_pc' = [h_pc EXCEPT ![h] = "idle"]
    /\ h_op' = [h_op EXCEPT ![h] = "none"]
    /\ UNCHANGED <<animation_thread, animation_running, th_pc, th_running, th_after>>
    /\ UNCHANGED <<ctlVars, animVars, packVars, frameVars, larsonVars, ctorVars, dmVars,
                   patVars, twinVars, showVars, reqVars>>

HandlerStep(h) ==
    \/ BeginStart(h) \/ BeginManual(h) \/ BeginStop(h)
    \/ StopSignal(h) \/ StopJoin(h) \/ StopFinish(h) \/ StartSpawn(h) \/ ManualMutate(h)

\* ------------------------------------------------------- the specifications
\* The machines that a specification does not run stay parked.
CtlParked ==
    /\ serial_connections = [i \in Slaves |-> MockSerial(0)]
    /\ slave_online = [i \in Slaves |-> TRUE]
    /\ mock_mode = TRUE
    /\ lock = NoThread
    /\ pc = [t \in Threads |-> "idle"]
    /\ idx = [t \in Threads |-> 1]
    /\ conn = [t \in Threads |-> NoConn]
    /\ found = [t \in Threads |-> {}]
    /\ online0 = [t \in Threads |-> AllOff]
    /\ res = [t \in Threads |-> NoRes]
    /\ used = [t \in Threads |-> NoUsed]
    /\ intr = [t \in Threads |-> FALSE]
    /\ interleaved = FALSE
    /\ down = [i \in Slaves |-> NeverDown]

AnimParked ==
    /\ now = ClockStart
    /\ last_update_time = 0
    /\ speed = 1
    /\ width = 1
    /\ min_relay_delay = 1
    /\ position = 0
    /\ buffer = [k \in Leds |-> 0]
    /\ apc = "idle"
    /\ start = -1
    /\ sw_now = -1
    /\ wake = -1
    /\ showAt = -1
    /\ prevShowAt = -1
    /\ prevStart = -1
    /\ prevLast = 0
    /\ slept = FALSE

PackParked ==
    /\ bits = <<>>
    /\ packed = <<>>
    /\ ppc = "input"

FrameParked ==
    /\ frame_data = <<>>
    /\ frame_arg = <<>>
    /\ total_relays = 0
    /\ LEDS_PER_SLAVE = 1
    /\ ports = 1
    /\ fr_online = [i \in FrameSlaves |-> FALSE]
    /\ fr_online0 = [i \in FrameSlaves |-> FALSE]
    /\ wire = [i \in FrameSlaves |-> <<>>]
    /\ fpc = "call"

LarsonParked ==
    /\ ls_total = 1
    /\ ls_width = 1
    /\ pos = 0
    /\ direction = 1
    /\ ls_lit = {}
    /\ ls_drawn = <<>>
    /\ lpc = "draw"

WebParked ==
    /\ animation_thread = NoAnim
    /\ animation_running = FALSE
    /\ th_pc = [a \in AnimThreads |-> "unborn"]
    /\ th_running = [a \in AnimThreads |-> FALSE]
    /\ th_after = [a \in AnimThreads |-> 0]
    /\ h_pc = [h \in Handlers |-> "idle"]
    /\ h_op = [h \in Handlers |-> "none"]

\* ------------------------------------------------ RelayController.__init__
CtorInit ==
    /\ ctor_ports \in 0..MaxPorts
    /\ ctor_arg \in {"none", "true", "false"}
    /\ SERIAL_AVAILABLE \in BOOLEAN
    /\ ctor_exists \in [1..ctor_ports -> BOOLEAN]
    /\ ctor_opens \in [1..ctor_ports -> BOOLEAN]
    /\ ctor_mock = FALSE
    /\ ctor_self_mock = FALSE
    /\ ctor_connections = <<>>
    /\ ctor_online = <<>>
    /\ ctor_pc = "detect"

\* lines 62-69: mock_mode None is auto-detected: mock when pyserial is
\* missing or some configured port does not exist
DetectMock(arg, available, exists) ==
    IF arg = "none" THEN ~available \/ \E p \in DOMAIN exists : ~exists[p]
    ELSE arg = "true"

\* lines 62-75
CtorDetect ==
    /\ ctor_pc = "detect"
    /\ ctor_mock' = DetectMock(ctor_arg, SERIAL_AVAILABLE, ctor_exists)
    /\ ctor_self_mock' = ctor_mock'
    /\ ctor_connections' = <<>>
    /\ ctor_online' = <<>>
    /\ ctor_pc' = "loop"
    /\ UNCHANGED <<ctor_ports, ctor_arg, SERIAL_AVAILABLE, ctor_exists, ctor_opens>>
    /\ UNCHANGED <<ctlVars, animVars, packVars, frameVars, larsonVars, webVars, dmVars,
                   patVars, twinVars, showVars, reqVars>>

\* if mock_mode or not SERIAL_AVAILABLE: conn = MockSerial(...)
Simulated(mock, available) == mock \/ ~available

\* The except clause appends True when mock_mode holds and False otherwise.
FallbackOnline_Always(mock) == TRUE
FallbackOnline(mock) == mock

\* lines 77-103: one iteration of the loop over SERIAL_PORTS
CtorPort ==
    /\ ctor_pc = "loop"
    /\ Len(ctor_connections) < ctor_ports
    /\ LET p == Len(ctor_connections) + 1
       IN  IF Simulated(ctor_mock, SERIAL_AVAILABLE)
             THEN /\ ctor_connections' = Append(ctor_connections, MockSerial(0))
                  /\ ctor_online' = Append(ctor_online, TRUE)
                  /\ UNCHANGED ctor_self_mock
             ELSE IF ctor_opens[p]
               THEN /\ ctor_connections' = Append(ctor_connections, RealSerial(0))
                    /\ ctor_online' = Append(ctor_online, TRUE)
                    /\ UNCHANGED ctor_self_mock
               ELSE /\ ctor_connections' = Append(ctor_connections, MockSerial(0))
                    /\ ctor_online' = Append(ctor_online, FallbackOnline(ctor_mock))
                    /\ ctor_self_mock' = (ctor_self_mock \/ ~ctor_mock)
    /\ UNCHANGED <<ctor_ports, ctor_arg, SERIAL_AVAILABLE, ctor_exists, ctor_opens, ctor_mock,
                   ctor_pc>>
    /\ UNCHANGED <<ctlVars, animVars, packVars, frameVars, larsonVars, webVars, dmVars,
                   patVars, twinVars, showVars, reqVars>>

\* the loop is exhausted (lines 105-109)
CtorDone ==
    /\ ctor_pc = "loop"
    /\ Len(ctor_connections) = ctor_ports
    /\ ctor_pc' = "done"
    /\ UNCHANGED <<ctor_ports, ctor_arg, SERIAL_AVAILABLE, ctor_exists, ctor_opens, ctor_mock,
                   ctor_self_mock, ctor_connections, ctor_online>>
    /\ UNCHANGED <<ctlVars, animVars, packVars, frameVars, larsonVars, webVars, dmVars,
                   patVars, twinVars, showVars, reqVars>>

CtorParked ==
    /\ ctor_ports = 0
    /\ ctor_arg = "none"
    /\ SERIAL_AVAILABLE = TRUE
    /\ ctor_exists = <<>>
    /\ ctor_opens = <<>>
    /\ ctor_mock = FALSE
    /\ ctor_self_mock = FALSE
    /\ ctor_connections = <<>>
    /\ ctor_online = <<>>
    /\ ctor_pc = "done"

\* ------------------------------------------------------- DisplayManager
Zeros_AllOn(total) == [k \in 1..total |-> 1]
Zeros(total) == [k \in 1..total |-> 0]
Ones(total) == [k \in 1..total |-> 1]
Call(op, index, state, before, raised) ==
    [op |-> op, index |-> index, state |-> state, before |-> before, raised |-> raised]
NoCall == Call("none", 0, 0, <<>>, FALSE)

\* DisplayManager.__init__: buffer = [0] * total_leds; self.bus is the SMBus
\* or None when it could not be opened
DmInit ==
    /\ total_leds \in 1..MaxDmTotal
    /\ dm_buffer = Zeros(total_leds)
    /\ bus \in {"open", "none"}
    /\ dm_pc = "idle"
    /\ dm_call = NoCall
    /\ dm_trace = <<>>
    /\ dm_shown = <<>>

\* if 0 <= index < self.total_leds
ValidIndex_UpperOnly(index, total) == index < total
ValidIndex(index, total) == 0 <= index /\ index < total

\* buf[index] = v on a Python list: a negative index counts from the end, an
\* index outside [-len, len) raises IndexError and stores nothing
StoreRaises(buf, index) == index >= Len(buf) \/ index < -Len(buf)
ListStore(buf, index, v) ==
    IF StoreRaises(buf, index) THEN buf
    ELSE IF index >= 0 THEN [buf EXCEPT ![index + 1] = v]
    ELSE [buf EXCEPT ![Len(buf) + index + 1] = v]

\* set_led: self.buffer[index] = 1 if state else 0, under the range test
SetLedBuffer(buf, total, index, state) ==
    IF ValidIndex(index, total) THEN ListStore(buf, index, IF Truthy(state) THEN 1 ELSE 0)
    ELSE buf
SetLedRaises(buf, total, index) == ValidIndex(index, total) /\ StoreRaises(buf, index)

IndexValues(total) == (-(total + 1))..(total + 1)
StateValues == {-1, 0, 1, 2}

DmSetLed ==
    /\ dm_pc = "idle"
    /\ \E index \in IndexValues(total_leds), state \in StateValues :
         /\ dm_buffer' = SetLedBuffer(dm_buffer, total_leds, index, state)
         /\ dm_call' = Call("set_led", index, state, dm_buffer,
                            SetLedRaises(dm_buffer, total_leds, index))
    /\ UNCHANGED <<total_leds, bus, dm_pc, dm_trace, dm_shown>>
    /\ UNCHANGED <<ctlVars, animVars, packVars, frameVars, larsonVars, webVars, ctorVars,
                   patVars, twinVars, showVars, reqVars>>

\* clear: self.buffer = [0] * self.total_leds
DmClear ==
    /\ dm_pc = "idle"
    /\ dm_buffer' = Zeros(total_leds)
    /\ dm_call' = Call("clear", 0, 0, dm_buffer, FALSE)
    /\ UNCHANGED <<total_leds, bus, dm_pc, dm_trace, dm_shown>>
    /\ UNCHANGED <<ctlVars, animVars, packVars, frameVars, larsonVars, webVars, ctorVars,
                   patVars, twinVars, showVars, reqVars>>

\* fill: self.buffer = [1] * self.total_leds
DmFill ==
    /\ dm_pc = "idle"
    /\ dm_buffer' = Ones(total_leds)
    /\ dm_call' = Call("fill", 0, 0, dm_buffer, FALSE)
    /\ UNCHANGED <<total_leds, bus, dm_pc, dm_trace, dm_shown>>
    /\ UNCHANGED <<ctlVars, animVars, packVars, frameVars, larsonVars, webVars, ctorVars,
                   patVars, twinVars, showVars, reqVars>>

\* if not self.bus: return; if self.bus: ...
BusPresent(b) == b = "open"

\* show: without a bus nothing is written; with one the buffer is written
\* slave by slave (an OSError of one write is printed and the loop goes on)
Shown(b, buf, prev) == IF BusPresent(b) THEN buf ELSE prev

DmShow ==
    /\ dm_pc = "idle"
    /\ dm_shown' = Shown(bus, dm_buffer, dm_shown)
    /\ dm_call' = Call("show", 0, 0, dm_buffer, FALSE)
    /\ UNCHANGED <<total_leds, dm_buffer, bus, dm_pc, dm_trace>>
    /\ UNCHANGED <<ctlVars, animVars, packVars, frameVars, larsonVars, webVars, ctorVars,
                   patVars, twinVars, showVars, reqVars>>

\* close: if self.bus: (clear, show, bus.close); without a bus it returns at once
DmCloseBegin ==
    /\ dm_pc = "idle"
    /\ dm_pc' = IF BusPresent(bus) THEN "close_clear" ELSE "closed"
    /\ dm_call' = Call("close", 0, 0, dm_buffer, FALSE)
    /\ dm_trace' = <<>>
    /\ UNCHANGED <<total_leds, dm_buffer, bus, dm_shown>>
    /\ UNCHANGED <<ctlVars, animVars, packVars, frameVars, larsonVars, webVars, ctorVars,
                   patVars, twinVars, showVars, reqVars>>

\* close: self.clear()
DmCloseClear ==
    /\ dm_pc = "close_clear"
    /\ dm_buffer' = Zeros(total_leds)
    /\ dm_trace' = Append(dm_trace, "clear")
    /\ dm_pc' = "close_show"
    /\ UNCHANGED <<total_leds, bus, dm_call, dm_shown>>
    /\ UNCHANGED <<ctlVars, animVars, packVars, frameVars, larsonVars, webVars, ctorVars,
                   patVars, twinVars, showVars, reqVars>>

\* close: self.show()
DmCloseShow ==
    /\ dm_pc = "close_show"
    /\ dm_shown' = Shown(bus, dm_buffer, dm_shown)
    /\ dm_trace' = Append(dm_trace, "show")
    /\ dm_pc' = "close_release"
    /\ UNCHANGED <<total_leds, dm_buffer, bus, dm_call>>
    /\ UNCHANGED <<ctlVars, animVars, packVars, frameVars, larsonVars, webVars, ctorVars,
                   patVars, twinVars, showVars, reqVars>>

\* close: self.bus.close()
DmCloseRelease ==
    /\ dm_pc = "close_release"
    /\ bus' = "closed"
    /\ dm_trace' = Append(dm_trace, "release")
    /\ dm_pc' = "closed"
    /\ UNCHANGED <<total_leds, dm_buffer, dm_call, dm_shown>>
    /\ UNCHANGED <<ctlVars, animVars, packVars, frameVars, larsonVars, webVars, ctorVars,
                   patVars, twinVars, showVars, reqVars>>

DmClose == DmCloseBegin \/ DmCloseClear \/ DmCloseShow \/ DmCloseRelease

DmParked ==
    /\ total_leds = 1
    /\ dm_buffer = Zeros(1)
    /\ bus = "none"
    /\ dm_pc = "idle"
    /\ dm_call = NoCall
    /\ dm_trace = <<>>
    /\ dm_shown = <<>>

\* ------------------------------------------------ the animation patterns
Kinds == {"RandomTwinkle", "ScanningChase", "CircleAnimation", "LarsonScanner", "RelayTest"}
HasWidth(k) == k \in {"ScanningChase", "LarsonScanner"}
HasState(k) == k # "RandomTwinkle"

\* the __init__ of the five classes: position = 0; pos = 0, direction = 1;
\* state = 0
NewInst == [position |-> 0, pos |-> 0, direction |-> 1, state |-> 0]
NoShow == [frame |-> <<>>, inst |-> NewInst]

PatInit ==
    /\ kind \in Kinds
    /\ pat_width \in (IF HasWidth(kind) THEN 1..MaxPatWidth ELSE {1})
    /\ inst = NewInst
    /\ inst0 = NewInst
    /\ phase = "clear"
    /\ steps = 0
    /\ events = <<>>
    /\ pat_lit = {}
    /\ pat_shown = NoShow
    /\ pat_prior = <<>>
    /\ total_leds \in 1..MaxPatTotal
    /\ dm_buffer = Zeros(total_leds)
    /\ bus \in {"open", "none"}
    /\ dm_pc = "idle"
    /\ dm_call = NoCall
    /\ dm_trace = <<>>
    /\ dm_shown = <<>>

\* (...) % self.dm.total_leds
Wrap_None(p, total) == p
Wrap(p, total) == p % total

\* RelayTest: range(total // 2) in state 1, range(total // 2, total) in state 2
TestIndices(st, total) ==
    IF st = 1 THEN 0..((total \div 2) - 1)
    ELSE IF st = 2 THEN (total \div 2)..(total - 1)
    ELSE {}

\* The indices one step passes to set_led, for the classes whose pattern is
\* decided by the instance's fields.
SetIndices(k, in, w, total) ==
    IF k = "ScanningChase" THEN {Wrap(in.position + i, total) : i \in 0..(w - 1)}
    ELSE IF k = "CircleAnimation" THEN {in.position}
    ELSE IF k = "LarsonScanner" THEN LarsonWindow(in.pos, w, total)
    ELSE TestIndices(in.state, total)

\* RandomTwinkle: every index whose random.random() fell below the density
TwinkleChoices(total) == SUBSET (0..(total - 1))

\* self.dm.set_led(i, 1) for every index of S
RECURSIVE SetLeds(_, _, _)
SetLeds(buf, total, S) ==
    IF S = {} THEN buf
    ELSE LET i == CHOOSE x \in S : TRUE
         IN  SetLeds(SetLedBuffer(buf, total, i, 1), total, S \ {i})

\* self.state = (self.state + 1) % 3
NextTestState_Toggle(st) == (st + 1) % 2
NextTestState(st) == (st + 1) % 3

\* the statements between show() and safe_wait()
AdvanceInst_CircleUnwrapped(k, in, w, total) ==
    IF k = "ScanningChase"
      THEN [in EXCEPT !.position = Wrap(in.position + 1, total)]
    ELSE IF k = "CircleAnimation"
      THEN [in EXCEPT !.position = in.position + 1]
    ELSE IF k = "LarsonScanner"
      THEN LET p == in.pos + in.direction
           IN  [in EXCEPT !.pos = p,
                          !.direction = IF Bounce(p, w, total) THEN -in.direction
                                        ELSE in.direction]
    ELSE IF k = "RelayTest" THEN [in EXCEPT !.state = NextTestState(in.state)]
    ELSE in
AdvanceInst(k, in, w, total) ==
    IF k \in {"ScanningChase", "CircleAnimation"}
      THEN [in EXCEPT !.position = Wrap(in.position + 1, total)]
    ELSE IF k = "LarsonScanner"
      THEN LET p == in.pos + in.direction
           IN  [in EXCEPT !.pos = p,
                          !.direction = IF Bounce(p, w, total) THEN -in.direction
                                        ELSE in.direction]
    ELSE IF k = "RelayTest" THEN [in EXCEPT !.state = NextTestState(in.state)]
    ELSE in

\* The order of the statements of _do_step: clear, the set_led loop, show,
\* the update of the instance's fields (RandomTwinkle has none), safe_wait.
PhaseAfter_AdvanceFirst(k, ph) ==
    IF ph = "clear" THEN "set"
    ELSE IF ph = "set" THEN (IF HasState(k) THEN "advance" ELSE "show")
    ELSE IF ph = "advance" THEN "show"
    ELSE IF ph = "show" THEN "wait"
    ELSE "clear"
PhaseAfter(k, ph) ==
    IF ph = "clear" THEN "set"
    ELSE IF ph = "set" THEN "show"
    ELSE IF ph = "show" THEN (IF HasState(k) THEN "advance" ELSE "wait")
    ELSE IF ph = "advance" THEN "wait"
    ELSE "clear"

\* _do_step: self.dm.clear()
PatClear ==
    /\ phase = "clear"
    /\ steps < MaxSteps
    /\ dm_buffer' = Zeros(total_leds)
    /\ inst0' = inst
    /\ pat_prior' = dm_buffer
    /\ events' = <<"clear">>
    /\ pat_lit' = {}
    /\ phase' = PhaseAfter(kind, phase)
    /\ UNCHANGED <<kind, pat_width, inst, steps, pat_shown>>
    /\ UNCHANGED <<total_leds, bus, dm_pc, dm_call, dm_trace, dm_shown>>
    /\ UNCHANGED <<ctlVars, animVars, packVars, frameVars, larsonVars, webVars, ctorVars,
                   twinVars, showVars, reqVars>>

\* _do_step: the set_led calls
PatSet ==
    /\ phase = "set"
    /\ \E S \in (IF kind = "RandomTwinkle" THEN TwinkleChoices(total_leds)
                 ELSE {SetIndices(kind, inst, pat_width, total_leds)}) :
         /\ dm_buffer' = SetLeds(dm_buffer, total_leds, S)
         /\ pat_lit' = S
    /\ events' = Append(events, "set")
    /\ phase' = PhaseAfter(kind, phase)
    /\ UNCHANGED <<kind, pat_width, inst, inst0, steps, pat_shown, pat_prior>>
    /\ UNCHANGED <<total_leds, bus, dm_pc, dm_call, dm_trace, dm_shown>>
    /\ UNCHANGED <<ctlVars, animVars, packVars, frameVars, larsonVars, webVars, ctorVars,
                   twinVars, showVars, reqVars>>

\* _do_step: self.dm.show()
PatShow ==
    /\ phase = "show"
    /\ pat_shown' = [frame |-> dm_buffer, inst |-> inst]
    /\ dm_shown' = Shown(bus, dm_buffer, dm_shown)
    /\ events' = Append(events, "show")
    /\ phase' = PhaseAfter(kind, phase)
    /\ UNCHANGED <<kind, pat_width, inst, inst0, steps, pat_lit, pat_prior>>
    /\ UNCHANGED <<total_leds, dm_buffer, bus, dm_pc, dm_call, dm_trace>>
    /\ UNCHANGED <<ctlVars, animVars, packVars, frameVars, larsonVars, webVars, ctorVars,
                   twinVars, showVars, reqVars>>

\* _do_step: the instance's fields move on
PatAdvance ==
    /\ phase = "advance"
    /\ inst' = AdvanceInst(kind, inst, pat_width, total_leds)
    /\ events' = Append(events, "advance")
    /\ phase' = PhaseAfter(kind, phase)
    /\ UNCHANGED <<kind, pat_width, inst0, steps, pat_lit, pat_shown, pat_prior>>
    /\ UNCHANGED <<dmVars, ctlVars, animVars, packVars, frameVars, larsonVars, webVars,
                   ctorVars, twinVars, showVars, reqVars>>

\* _do_step: self.safe_wait(self.speed) returns and with it the step
PatWait ==
    /\ phase = "wait"
    /\ steps' = steps + 1
    /\ events' = Append(events, "wait")
    /\ phase' = PhaseAfter(kind, phase)
    /\ UNCHANGED <<kind, pat_width, inst, inst0, pat_lit, pat_shown, pat_prior>>
    /\ UNCHANGED <<dmVars, ctlVars, animVars, packVars, frameVars, larsonVars, webVars,
                   ctorVars, twinVars, showVars, reqVars>>

\* Between two steps the other users of the facade write its buffer through
\* fill and set_led: the frame of an earlier animation, or a manual pattern.
\* They are followed during the first MaxForeign steps.
PatForeign ==
    /\ phase = "clear"
    /\ steps < MaxForeign
    /\ \/ dm_buffer' = Ones(total_leds)
       \/ \E index \in 0..(total_leds - 1), state \in {0, 1} :
            dm_buffer' = SetLedBuffer(dm_buffer, total_leds, index, state)
    /\ dm_buffer' # dm_buffer
    /\ UNCHANGED <<total_leds, bus, dm_pc, dm_call, dm_trace, dm_shown>>
    /\ UNCHANGED <<patVars, ctlVars, animVars, packVars, frameVars, larsonVars, webVars,
                   ctorVars, twinVars, showVars, reqVars>>

PatStep == PatClear \/ PatSet \/ PatShow \/ PatAdvance \/ PatWait

PatParked ==
    /\ kind = "CircleAnimation"
    /\ pat_width = 1
    /\ inst = NewInst
    /\ inst0 = NewInst
    /\ phase = "clear"
    /\ steps = 0
    /\ events = <<>>
    /\ pat_lit = {}
    /\ pat_shown = NoShow
    /\ pat_prior = <<>>

\* ------------------------------------------- CircleAnimation beside ScanningChase
\* Both are constructed on displays with the same total_leds; the chase has
\* width 1.
TwinInit ==
    /\ tw_total \in 1..MaxTwinTotal
    /\ tw_circle = NewInst
    /\ tw_chase = NewInst
    /\ tw_cframes = <<>>
    /\ tw_kframes = <<>>

\* One _do_step: clear, set_led over the pattern, show, advance the position.
StepFrame(k, in, w, total) == SetLeds(Zeros(total), total, SetIndices(k, in, w, total))

CircleStep ==
    /\ Len(tw_cframes) < MaxTwinSteps
    /\ tw_cframes' = Append(tw_cframes, StepFrame("CircleAnimation", tw_circle, 1, tw_total))
    /\ tw_circle' = AdvanceInst("CircleAnimation", tw_circle, 1, tw_total)
    /\ UNCHANGED <<tw_total, tw_chase, tw_kframes>>
    /\ UNCHANGED <<ctlVars, animVars, packVars, frameVars, larsonVars, webVars, ctorVars,
                   dmVars, patVars, showVars, reqVars>>

ChaseStep ==
    /\ Len(tw_kframes) < MaxTwinSteps
    /\ tw_kframes' = Append(tw_kframes, StepFrame("ScanningChase", tw_chase, 1, tw_total))
    /\ tw_chase' = AdvanceInst("ScanningChase", tw_chase, 1, tw_total)
    /\ UNCHANGED <<tw_total, tw_circle, tw_cframes>>
    /\ UNCHANGED <<ctlVars, animVars, packVars, frameVars, larsonVars, webVars, ctorVars,
                   dmVars, patVars, showVars, reqVars>>

TwinParked ==
    /\ tw_total = 1
    /\ tw_circle = NewInst
    /\ tw_chase = NewInst
    /\ tw_cframes = <<>>
    /\ tw_kframes = <<>>

\* ------------------------------------------------- show over the I2C bus
num_slaves == NumI2cSlaves
bytes_per_slave == BytesPerSlave
leds_per_slave == 8 * bytes_per_slave
base_address == 8
BufferLen == num_slaves * leds_per_slave

\* self.buffer holds 0 or 1 in each of its total_leds places; the frames
\* followed have at most MaxLit channels on.
LitSets == {{f[k] : k \in 1..MaxLit} \ {0} : f \in [1..MaxLit -> 0..BufferLen]}
ShowBuffers == {[j \in 1..BufferLen |-> IF j \in S THEN 1 ELSE 0] : S \in LitSets}

ShowInit ==
    /\ sh_buffer \in ShowBuffers
    /\ sh_bus \in {"open", "none"}
    /\ sh_pc = "idle"
    /\ sh_idx = 0
    /\ sh_writes = <<>>

\* for bit in range(8): if slave_chunk[i + bit]: byte_val |= (1 << bit)
RECURSIVE ChunkByte(_, _, _)
ChunkByte(chunk, i, bit) ==
    IF bit = 8 THEN 0
    ELSE (IF chunk[i + bit + 1] # 0 THEN Pow2(bit) ELSE 0) + ChunkByte(chunk, i, bit + 1)

\* for i in range(0, 96, 8): ... packed_data.append(byte_val)
PackChunk(chunk) == [k \in 1..bytes_per_slave |-> ChunkByte(chunk, 8 * (k - 1), 0)]

\* self.buffer[start_led:end_led]
slave_chunk(buf, slave_idx) ==
    Slice(buf, slave_idx * leds_per_slave, slave_idx * leds_per_slave + leds_per_slave)

\* except OSError as e: print(...)
Caught_Nothing(outcome) == FALSE
Caught(outcome) == outcome = "OSError"

\* if not self.bus: return
ShowBegin ==
    /\ sh_pc \in {"idle", "done"}
    /\ sh_writes' = <<>>
    /\ sh_idx' = 0
    /\ sh_pc' = IF BusPresent(sh_bus) THEN "loop" ELSE "done"
    /\ UNCHANGED <<sh_buffer, sh_bus>>
    /\ UNCHANGED <<ctlVars, animVars, packVars, frameVars, larsonVars, webVars, ctorVars,
                   dmVars, patVars, twinVars, reqVars>>

\* One pass of the loop body: the block write either returns or raises
\* OSError.
ShowWrite ==
    /\ sh_pc = "loop"
    /\ sh_idx < num_slaves
    /\ \E outcome \in {"ok", "OSError"} :
         /\ sh_writes' = Append(sh_writes,
                                [address |-> base_address + sh_idx,
                                 cmd |-> 0,
                                 data |-> PackChunk(slave_chunk(sh_buffer, sh_idx)),
                                 outcome |-> outcome])
         /\ IF outcome = "ok" \/ Caught(outcome)
              THEN sh_idx' = sh_idx + 1 /\ sh_pc' = "loop"
              ELSE sh_idx' = sh_idx /\ sh_pc' = "raised"
    /\ UNCHANGED <<sh_buffer, sh_bus>>
    /\ UNCHANGED <<ctlVars, animVars, packVars, frameVars, larsonVars, webVars, ctorVars,
                   dmVars, patVars, twinVars, reqVars>>

\* range(self.num_slaves) is exhausted: show returns
ShowReturn ==
    /\ sh_pc = "loop"
    /\ sh_idx = num_slaves
    /\ sh_pc' = "done"
    /\ UNCHANGED <<sh_buffer, sh_bus, sh_idx, sh_writes>>
    /\ UNCHANGED <<ctlVars, animVars, packVars, frameVars, larsonVars, webVars, ctorVars,
                   dmVars, patVars, twinVars, reqVars>>

ShowParked ==
    /\ sh_buffer = <<>>
    /\ sh_bus = "none"
    /\ sh_pc = "idle"
    /\ sh_idx = 0
    /\ sh_writes = <<>>

\* ------------------------------------------- web_server: the request handlers
\* One request is answered at a time, each handler from its first statement
\* to its return; the animation thread runs between the requests.
AnimationNames == {"circle_animation", "relay_test"}
StartArguments == AnimationNames \cup {"", "bogus"}
NoRequest == [op |-> "none", name |-> "", index |-> 0, status |-> 0]

\* globals at import, then init_controller: led_states = [0] * total_leds,
\* clear(), show()
ReqInit ==
    /\ rq_total \in 1..MaxReqTotal
    /\ current_animation = "None"
    /\ manual_mode = TRUE
    /\ led_states = Zeros(rq_total)
    /\ rq_buffer = Zeros(rq_total)
    /\ rq_frames = 0
    /\ rq_count = 0
    /\ rq_last = NoRequest

\* the globals and the thread objects, as one value the handlers transform
Globals ==
    [animation_thread |-> animation_thread, animation_running |-> animation_running,
     current_animation |-> current_animation, manual_mode |-> manual_mode,
     led_states |-> led_states, buffer |-> rq_buffer, frames |-> rq_frames,
     th_running |-> th_running, th_pc |-> th_pc]

Commit(g) ==
    /\ animation_thread' = g.animation_thread
    /\ animation_running' = g.animation_running
    /\ current_animation' = g.current_animation
    /\ manual_mode' = g.manual_mode
    /\ led_states' = g.led_states
    /\ rq_buffer' = g.buffer
    /\ rq_frames' = Min(g.frames, MaxFrames)
    /\ th_running' = g.th_running
    /\ th_pc' = g.th_pc

Answer(op, name, index, status) ==
    /\ rq_count < MaxRequests
    /\ rq_count' = rq_count + 1
    /\ rq_last' = [op |-> op, name |-> name, index |-> index, status |-> status]

\* stop_animation: the thread is signalled and joined for at most 3 s (joined
\* tells whether it ended in that time), the globals are reset,
\* reset_hardware() clears the display and led_states is zeroed
stop_animation(g, joined) ==
    LET at == g.animation_thread
    IN  [g EXCEPT !.th_running = IF at # NoAnim THEN [@ EXCEPT ![at] = FALSE] ELSE @,
                  !.th_pc = IF at # NoAnim /\ joined /\ @[at] # "unborn"
                              THEN [@ EXCEPT ![at] = "dead"] ELSE @,
                  !.animation_thread = NoAnim,
                  !.animation_running = FALSE,
                  !.current_animation = "None",
                  !.manual_mode = TRUE,
                  !.buffer = Zeros(Len(@)),
                  !.frames = @ + 1,
                  !.led_states = Zeros(Len(@))]

\* if animation_running: stop_animation()
StopIfRunning(g, joined) == IF g.animation_running THEN stop_animation(g, joined) ELSE g

\* start_animation from "manual_mode = False" on: the thread a is created and
\* started
Spawn(g, name, a) ==
    [g EXCEPT !.manual_mode = FALSE,
              !.animation_running = TRUE,
              !.current_animation = name,
              !.animation_thread = a,
              !.th_running = [@ EXCEPT ![a] = TRUE],
              !.th_pc = [@ EXCEPT ![a] = "test"]]

\* POST /api/animation/start
ReqStart ==
    /\ \E name \in StartArguments, joined \in BOOLEAN :
         IF name = ""
           THEN Commit(Globals) /\ Answer("start", name, 0, 400)
         ELSE IF name \notin AnimationNames
           THEN Commit(StopIfRunning(Globals, joined)) /\ Answer("start", name, 0, 400)
         ELSE \E a \in AnimThreads :
                /\ th_pc[a] = "unborn"
                /\ \A b \in AnimThreads : th_pc[b] = "unborn" => a <= b
                /\ Commit(Spawn(StopIfRunning(Globals, joined), name, a))
                /\ Answer("start", name, 0, 200)
    /\ UNCHANGED <<th_after, h_pc, h_op, rq_total>>
    /\ UNCHANGED <<ctlVars, animVars, packVars, frameVars, larsonVars, ctorVars, dmVars,
                   patVars, twinVars, showVars>>

\* POST /api/animation/stop
ReqStop ==
    /\ \E joined \in BOOLEAN : Commit(stop_animation(Globals, joined))
    /\ Answer("stop", "", 0, 200)
    /\ UNCHANGED <<th_after, h_pc, h_op, rq_total>>
    /\ UNCHANGED <<ctlVars, animVars, packVars, frameVars, larsonVars, ctorVars, dmVars,
                   patVars, twinVars, showVars>>

\* if index < 0 or index >= display_manager.total_leds
ToggleRejects_UpperOnly(index, total) == index >= total
ToggleRejects(index, total) == index < 0 \/ index >= total

\* state is None: led_states[index] = 1 - led_states[index]; else
\* led_states[index] = 1 if state else 0
StateArguments == {"None", "False", "True"}
NewLedState(old, state) == IF state = "None" THEN 1 - old ELSE IF state = "True" THEN 1 ELSE 0

\* toggle_led past the range test: manual_mode, led_states[index], and
\* clear(), set_led for every lit entry, show()
Toggle(g, index, state) ==
    LET place == IF index >= 0 THEN index + 1 ELSE Len(g.led_states) + index + 1
        leds == [g.led_states EXCEPT ![place] = NewLedState(@, state)]
    IN  [g EXCEPT !.manual_mode = TRUE,
                  !.led_states = leds,
                  !.buffer = leds,
                  !.frames = @ + 1]

\* POST /api/led/<index>
ReqToggle ==
    /\ \E index \in (-1)..(rq_total + 1), state \in StateArguments, joined \in BOOLEAN :
         IF ToggleRejects(index, rq_total)
           THEN Commit(Globals) /\ Answer("toggle", "", index, 400)
           ELSE Commit(Toggle(StopIfRunning(Globals, joined), index, state))
                /\ Answer("toggle", "", index, 200)
    /\ UNCHANGED <<th_after, h_pc, h_op, rq_total>>
    /\ UNCHANGED <<ctlVars, animVars, packVars, frameVars, larsonVars, ctorVars, dmVars,
                   patVars, twinVars, showVars>>

ReqParked ==
    /\ rq_total = 1
    /\ current_animation = "None"
    /\ manual_mode = TRUE
    /\ led_states = <<>>
    /\ rq_buffer = <<>>
    /\ rq_frames = 0
    /\ rq_count = 0
    /\ rq_last = NoRequest

\* One caller issues the RelayController calls one after another.
Init == CtlInit /\ AnimParked /\ PackParked /\ FrameParked /\ LarsonParked /\ WebParked
    /\ CtorParked /\ DmParked /\ PatParked /\ TwinParked /\ ShowParked /\ ReqParked
Next ==
    \/ DispatchStep(1) \/ ScanStep(1) \/ ResetBuffersStep(1) \/ Close(1) \/ Return(1)
Spec == Init /\ [][Next]_vars

\* Several threads call dispatch_frame concurrently.
NextConc == \E t \in Threads : DispatchStep(t) \/ Return(t)
SpecConc == Init /\ [][NextConc]_vars

\* One thread dispatches frames while another one rescans the bus.
NextRace == DispatchStep(1) \/ Return(1) \/ ScanStep(2) \/ Return(2)
SpecRace == Init /\ [][NextRace]_vars

\* Threads call dispatch_frame (malformed frames included) and reset_buffers.
\* A thread inside a call keeps running: every transport call returns or
\* raises within its timeout. A thread blocked at the lock gets it at one of
\* the moments it is free.
InCall(t) ==
    \/ DispatchFetch(t) \/ DispatchDone(t) \/ DispatchMalformed(t) \/ DispatchCheck(t)
    \/ DispatchIO(t) \/ ResetStep(t) \/ ResetDone(t) \/ Return(t)
NextLock ==
    \E t \in Threads :
        \/ DispatchStep(t) \/ DispatchWait(t) \/ DispatchEnter(t) \/ DispatchMalformed(t)
        \/ ResetBuffersStep(t) \/ Return(t)
SpecLock ==
    /\ Init
    /\ [][NextLock]_vars
    /\ \A t \in Threads : WF_vars(InCall(t)) /\ SF_vars(DispatchEnter(t))

\* One animation instance stepped in a loop, against the clock.
InitAnim == CtlParked /\ AnimInit /\ PackParked /\ FrameParked /\ LarsonParked /\ WebParked
    /\ CtorParked /\ DmParked /\ PatParked /\ TwinParked /\ ShowParked /\ ReqParked
NextAnim == AnimStep
SpecAnim == InitAnim /\ [][NextAnim]_vars

\* _pack_bits applied to every input within the bounds.
InitPack == CtlParked /\ AnimParked /\ PackInit /\ FrameParked /\ LarsonParked /\ WebParked
    /\ CtorParked /\ DmParked /\ PatParked /\ TwinParked /\ ShowParked /\ ReqParked
NextPack == PackBits
SpecPack == InitPack /\ [][NextPack]_vars

\* One dispatch_frame call for every frame and configuration within the bounds.
InitFrame == CtlParked /\ AnimParked /\ PackParked /\ FrameInit /\ LarsonParked
    /\ WebParked /\ CtorParked /\ DmParked /\ PatParked /\ TwinParked /\ ShowParked /\ ReqParked
NextFrame == DispatchFrame
SpecFrame == InitFrame /\ [][NextFrame]_vars

\* One LarsonScanner stepped in a loop, for every width and channel count
\* within the bounds.
InitLarson == CtlParked /\ AnimParked /\ PackParked /\ FrameParked /\ LarsonInit
    /\ WebParked /\ CtorParked /\ DmParked /\ PatParked /\ TwinParked /\ ShowParked /\ ReqParked
NextLarson == LarsonDraw \/ LarsonAdvance
SpecLarson == InitLarson /\ [][NextLarson]_vars

\* The web server: request handlers running concurrently with the animation
\* threads they start.
InitWeb ==
    CtlParked /\ AnimParked /\ PackParked /\ FrameParked /\ LarsonParked /\ WebInit
    /\ CtorParked /\ DmParked /\ PatParked /\ TwinParked /\ ShowParked /\ ReqParked
NextWeb ==
    \/ \E h \in Handlers : HandlerStep(h)
    \/ \E a \in AnimThreads : ThreadStep(a)
SpecWeb == InitWeb /\ [][NextWeb]_vars

\* One request at a time, every started thread being scheduled again and
\* again (a step ends: its writes have a timeout, its wait is a finite sleep).
NextCoop ==
    \/ HandlerStep("h1")
    \/ \E a \in AnimThreads : ThreadStep(a)
SpecCoop == InitWeb /\ [][NextCoop]_vars /\ \A a \in AnimThreads : WF_vars(ThreadStep(a))

\* The constructor of RelayController, over every configuration.
InitCtor ==
    CtlParked /\ AnimParked /\ PackParked /\ FrameParked /\ LarsonParked /\ WebParked
    /\ CtorInit /\ DmParked /\ PatParked /\ TwinParked /\ ShowParked /\ ReqParked
NextCtor == CtorDetect \/ CtorPort \/ CtorDone
SpecCtor == InitCtor /\ [][NextCtor]_vars

\* A DisplayManager called method by method, then closed.
InitDisplay ==
    CtlParked /\ AnimParked /\ PackParked /\ FrameParked /\ LarsonParked /\ WebParked
    /\ CtorParked /\ DmInit /\ PatParked /\ TwinParked /\ ShowParked /\ ReqParked
NextDisplay == DmSetLed \/ DmClear \/ DmFill \/ DmShow \/ DmClose
SpecDisplay == InitDisplay /\ [][NextDisplay]_vars

\* One animation instance of each class, stepped in a loop.
InitPattern ==
    CtlParked /\ AnimParked /\ PackParked /\ FrameParked /\ LarsonParked /\ WebParked
    /\ CtorParked /\ PatInit /\ TwinParked /\ ShowParked /\ ReqParked
NextPattern == PatStep
SpecPattern == InitPattern /\ [][NextPattern]_vars

InitTwin ==
    CtlParked /\ AnimParked /\ PackParked /\ FrameParked /\ LarsonParked /\ WebParked
    /\ CtorParked /\ DmParked /\ PatParked /\ TwinInit /\ ShowParked /\ ReqParked
NextTwin == CircleStep \/ ChaseStep
SpecTwin == InitTwin /\ [][NextTwin]_vars

InitShow ==
    CtlParked /\ AnimParked /\ PackParked /\ FrameParked /\ LarsonParked /\ WebParked
    /\ CtorParked /\ DmParked /\ PatParked /\ TwinParked /\ ShowInit /\ ReqParked
NextShow == ShowBegin \/ ShowWrite \/ ShowReturn
SpecShow == InitShow /\ [][NextShow]_vars

\* The request handlers, one request at a time, and the animation threads.
InitRequests ==
    CtlParked /\ AnimParked /\ PackParked /\ FrameParked /\ LarsonParked /\ WebInit
    /\ CtorParked /\ DmParked /\ PatParked /\ TwinParked /\ ShowParked /\ ReqInit
NextRequests ==
    \/ ReqStart \/ ReqStop \/ ReqToggle
    \/ \E a \in AnimThreads : ThreadStep(a)
SpecRequests == InitRequests /\ [][NextRequests]_vars

\* An animation instance stepped on a buffer other users write between its
\* steps.
NextShared == PatStep \/ PatForeign
SpecShared == InitPattern /\ [][NextShared]_vars

\* ------------------------------------------------------------------ claims
DispatchPcs == {"d_fetch", "d_check", "d_io", "d_exit", "d_raise"}
Attempted == {"ok"} \cup Errors

\* C1: fault isolation. When a dispatch_frame call is over and the write to
\* slave i failed in it, slave i is offline, and every other slave that was
\* online when the call began and whose own transfer did not fail is still
\* online and was sent its packet in this call (slaves after i included).
C1_FaultIsolation ==
    \A t \in Threads :
        pc[t] = "d_exit" =>
            \A i \in Slaves :
                res[t][i] = "write_err" =>
                    /\ ~slave_online[i]
                    /\ \A j \in Slaves \ {i} :
                           (online0[t][j] /\ res[t][j] \notin Errors) =>
                               (slave_online[j] /\ PacketWritten(res[t][j]))

\* a call in which the write to slave 1 failed and slave 2, after it, was served
C1_Witness ==
    /\ pc[1] = "d_exit"
    /\ online0[1][1] /\ res[1][1] = "write_err" /\ ~slave_online[1]
    /\ online0[1][2] /\ res[1][2] = "ok" /\ slave_online[2]

\* C2: dispatch_frame never propagates a transport error: no step of a call
\* leaves it by an exception, and a failed drain, write or flush on slave i
\* changes nothing but slave i's liveness flag, which becomes offline.
C2_NoPropagation ==
    [][\A t \in Threads :
          /\ pc'[t] # "d_raise"
          /\ (pc[t] = "d_io" /\ pc'[t] # "d_io") =>
                /\ serial_connections' = serial_connections
                /\ mock_mode' = mock_mode
                /\ lock' = lock
                /\ \A j \in Slaves \ {idx[t]} : slave_online'[j] = slave_online[j]
                /\ slave_online'[idx[t]] =
                       (slave_online[idx[t]] /\ res'[t][idx[t]] \notin Errors)]_vars

\* a call that returns normally after the drain of one slave and the flush of
\* the other failed
C2_Witness ==
    /\ pc[1] = "d_exit"
    /\ res[1][1] = "drain_err" /\ ~slave_online[1]
    /\ res[1][2] = "flush_err" /\ ~slave_online[2]

\* C3: no dispatch_frame call performs an operation on the link of a slave
\* that is offline, and a call that finds every slave offline performs no
\* operation at all.
C3_OfflineSkipped ==
    [][\A t \in Threads :
          /\ \A i \in Slaves :
                (res[t][i] \notin Attempted /\ res'[t][i] \in Attempted) => slave_online[i]
          /\ (pc'[t] \in DispatchPcs /\ \A i \in Slaves : ~online0'[t][i]) =>
                \A i \in Slaves : res'[t][i] \notin Attempted]_vars

\* a call that found every slave offline and skipped them all
C3_Witness ==
    /\ pc[1] = "d_exit"
    /\ \A i \in Slaves : ~online0[1][i] /\ res[1][i] = "skip" /\ ~slave_online[i]

\* C4: a liveness flag goes from online to offline only by a failed transfer
\* (drain, write, flush) to that slave in dispatch_frame.
C4_OfflineOnlyByWriteFailure ==
    [][\A i \in Slaves :
          (slave_online[i] /\ ~slave_online'[i]) =>
              \E t \in Threads :
                  pc[t] = "d_io" /\ idx[t] = i /\ res'[t][i] \in Errors]_vars

\* C5: a liveness flag goes from offline to online only in the reconnection
\* step of scan_bus, and only when that step registered a newly opened
\* connection for the slave; dispatch_frame and reset_buffers never do it.
C5_OnlineOnlyByRescan ==
    [][\A i \in Slaves :
          (~slave_online[i] /\ slave_online'[i]) =>
              \E t \in Threads :
                  /\ pc[t] = "s_iter" /\ pc'[t] = "s_probe" /\ idx[t] = i
                  /\ serial_connections'[i].gen = serial_connections[i].gen + 1
                  /\ serial_connections'[i].open]_vars

\* scan_bus has reopened the real port of a slave that was offline
C5_Witness ==
    /\ pc[1] = "s_probe"
    /\ ~online0[1][idx[1]] /\ slave_online[idx[1]]
    /\ res[1][idx[1]] = "reopened"
    /\ serial_connections[idx[1]].real /\ ~mock_mode

\* C6: rescan recovery. A slave that scan_bus has reopened is online when
\* scan_bus returns, on a connection newer than the one it went offline on;
\* and a dispatch_frame call that finds online a slave last set offline by a
\* failed transfer operates on the slave's registered (new) connection, never
\* on the one the earlier transfer failed on: its packet goes out there
\* unless the transfer on the new connection fails as well.
C6_RescanRecovery ==
    \A t \in Threads :
        /\ pc[t] = "s_exit" =>
              \A i \in Slaves :
                  res[t][i] = "reopened" =>
                      (slave_online[i] /\ serial_connections[i].gen > down[i].gen)
        /\ pc[t] = "d_exit" =>
              \A i \in Slaves :
                  online0[t][i] =>
                      /\ res[t][i] \in Attempted
                      /\ used[t][i] = serial_connections[i].gen
                      /\ (down[i].why \in Errors /\ res[t][i] = "ok") =>
                             used[t][i] > down[i].gen

\* the write to slave 1 failed, a rescan reopened it, and the next
\* dispatch_frame call has written its packet to the new connection
C6_Witness ==
    /\ pc[1] = "d_exit"
    /\ down[1] = Down("write_err", 0)
    /\ online0[1][1] /\ res[1][1] = "ok" /\ used[1][1] = 1
    /\ slave_online[1]

\* C7: at most one thread is inside the write sequence of dispatch_frame, and
\* no call's packets are split by a packet of another call.
C7_DispatchAtomic ==
    /\ Cardinality({t \in Threads : pc[t] \in DispatchPcs}) <= 1
    /\ ~interleaved

\* thread 1 is between its two packets while thread 2 is ready to dispatch
C7_Witness ==
    /\ pc[1] = "d_io" /\ idx[1] = 2 /\ PacketWritten(res[1][1])
    /\ lock = 1
    /\ pc[2] = "idle"

\* C8: two consecutive show calls of the animation are at least
\* max(speed, min_relay_delay) apart.
C8_ShowInterval ==
    prevShowAt # -1 => showAt - prevShowAt >= TargetDelay(speed, min_relay_delay)

\* C9: the starts of two consecutive steps of the animation are at least
\* max(speed, min_relay_delay) apart.
C9_StepInterval ==
    prevStart # -1 => start - prevStart >= TargetDelay(speed, min_relay_delay)

\* the smallest k with 8k >= n
CeilDiv8(n) == CHOOSE k \in 0..n : 8 * k >= n /\ 8 * (k - 1) < n

\* bit b of byte value v
BitOf(v, b) == (v \div Pow2(b)) % 2

\* C10: _pack_bits returns ceil(N/8) byte values, and bit b of byte i is set
\* exactly when i*8+b < N and the input at position i*8+b is nonzero.
C10_PackBits ==
    ppc = "done" =>
        /\ Len(packed) = CeilDiv8(Len(bits))
        /\ \A i \in 0..(Len(packed) - 1) :
               /\ packed[i + 1] \in 0..255
               /\ \A b \in 0..7 :
                      (BitOf(packed[i + 1], b) = 1) <=>
                          (i * 8 + b < Len(bits) /\ bits[i * 8 + b + 1] # 0)

\* nine inputs, the last one set by a value other than 1: two bytes, the
\* second one holding bit 0 only
C10_Witness ==
    /\ ppc = "done"
    /\ Len(bits) = 9 /\ bits[9] = 2 /\ bits[1] = 0 /\ bits[2] = 1
    /\ Len(packed) = 2 /\ packed[2] = 1

\* the payload of a packet: what lies between the length byte and the end marker
Payload(p) == SubSeq(p, 4, Len(p) - 2)

ChannelOf(f, c) == IF c < Len(f) THEN f[c + 1] ELSE 0

\* C12: the payload sent to slave i has ceil(LEDS_PER_SLAVE/8) bytes, the
\* length byte says so, and bit k of the payload is channel i*LEDS_PER_SLAVE+k
\* of the frame, for every frame length and every total_relays.
C12_PayloadSize ==
    fpc = "done" =>
        \A i \in 1..ports : \A n \in 1..Len(wire[i]) :
            LET p == Payload(wire[i][n])
            IN  /\ Len(p) = CeilDiv8(LEDS_PER_SLAVE)
                /\ wire[i][n][3] = CeilDiv8(LEDS_PER_SLAVE)
                /\ \A k \in 0..(LEDS_PER_SLAVE - 1) :
                       (k \div 8 < Len(p) /\ BitOf(p[(k \div 8) + 1], k % 8) = 1) <=>
                           (ChannelOf(frame_arg, (i - 1) * LEDS_PER_SLAVE + k) # 0)

\* the frame cut or zero-extended to exactly total entries
ExactFrame(f, total) == [k \in 1..total |-> IF k <= Len(f) THEN f[k] ELSE 0]

\* C13: what a dispatch_frame call writes is what it would write for the
\* frame cut or zero-extended to exactly total_relays entries: a short frame
\* counts as zero-extended, the entries of a long frame from index
\* total_relays on have no influence on any byte.
C13_ExactlyTotal ==
    fpc = "done" =>
        \A i \in 1..ports :
            fr_online0[i] =>
                wire[i] = <<Packet(SlaveChunk(ExactFrame(frame_arg, total_relays), i - 1,
                                              LEDS_PER_SLAVE))>>

\* C14: when scan_bus returns, the slaves in the list it returns are exactly
\* the slaves whose liveness flag is online.
C14_ScanResult ==
    \A t \in Threads :
        pc[t] = "s_exit" => \A i \in Slaves : (i \in found[t]) <=> slave_online[i]

\* C15: when reset_buffers returns, every liveness flag has the value it had
\* when the call began.
C15_ResetKeepsLiveness ==
    \A t \in Threads :
        pc[t] = "r_exit" => slave_online = online0[t]

\* C19: a LarsonScanner whose window fits the display (width <= total) draws
\* its window at a position in [0, total - width] at every step: 0,1,...,7,
\* 6,...,0,1,... for 10 channels and width 3.
C19_ScannerBounce ==
    (ls_width <= ls_total /\ ls_drawn # <<>>) =>
        (0 <= ls_drawn[1] /\ ls_drawn[1] <= ls_total - ls_width)

\* C20: no LarsonScanner step sets a channel index outside [0, total_leds).
C20_ScannerInRange ==
    \A i \in ls_lit : 0 <= i /\ i < ls_total

\* a step that drew with part of its window past the end of the display: the
\* indices in range were set, the others left out
C20_Witness ==
    /\ lpc = "advance"
    /\ ls_drawn = <<ls_total - ls_width + 1>>
    /\ ls_width >= 2
    /\ ls_lit = (ls_total - ls_width + 1)..(ls_total - 1)

\* C16: cooperative stop. A thread whose stop() was called begins at most one
\* further step; a dispatch that a thread began is left only by completing
\* (never by the thread ending); and a stopped thread ends.
C16_CooperativeStop ==
    /\ [](\A a \in AnimThreads : th_after[a] <= 1)
    /\ [][\A a \in AnimThreads :
            th_pc[a] = "show" => th_pc'[a] \in {"show", "test"}]_vars
    /\ \A a \in AnimThreads : (Alive(a) /\ ~th_running[a]) ~> (th_pc[a] = "dead")

\* stop() came between the loop test and the call of step(): the thread is
\* inside the dispatch of the one step it began after it
C16_Witness ==
    \E a \in AnimThreads :
        th_pc[a] = "show" /\ ~th_running[a] /\ th_after[a] = 1

\* C17: whenever a handler mutates the buffer (the reset at the end of
\* stop_animation, the update of a manual-control handler), no animation
\* thread is alive any more.
C17_ModeSwitch ==
    [][\A h \in Handlers :
          (h_pc[h] \in {"stop_finish", "manual_mutate"} /\ h_pc'[h] # h_pc[h]) =>
              \A a \in AnimThreads : ~Alive(a)]_vars

\* C18: at most one animation thread is alive at any time.
C18_SingleAnimation ==
    Cardinality({a \in AnimThreads : Alive(a)}) <= 1

\* C25: when safe_wait(duration) has set last_update_time, the new value is
\* at least the previous one plus max(duration, min_relay_delay); the call
\* slept exactly when that amount had not yet elapsed at its entry.
C25_SafeWait ==
    apc = "measure" =>
        /\ last_update_time >= prevLast + Max(speed, min_relay_delay)
        /\ slept <=> (sw_now - prevLast < Max(speed, min_relay_delay))

\* a safe_wait that had to sleep: the previous update was less than the
\* target delay ago when it was entered
C25_Witness ==
    /\ apc = "measure"
    /\ slept
    /\ prevLast > 0
    /\ last_update_time = prevLast + Max(speed, min_relay_delay)

\* C26: every dispatch to an online slave whose link is a real serial port
\* drains the input buffer before the write and, when the write has returned,
\* flushes the stream after it, whatever the other slaves' links are.
C26_DrainWriteFlush ==
    [][\A t \in Threads :
         (pc[t] = "d_io" /\ pc'[t] # "d_io" /\ conn[t].real) =>
             LET o == res'[t][idx[t]]
                 calls == TransportCalls(mock_mode, o)
             IN  /\ calls[1] = "drain"
                 /\ PacketWritten(o) => calls = <<"drain", "write", "flush">>]_vars

\* C28: mock_mode, once true, stays true, and no step replaces a simulation
\* link by a real serial link.
C28_NeverPromoted ==
    [][/\ mock_mode => mock_mode'
       /\ \A i \in Slaves :
            ~serial_connections[i].real => ~serial_connections'[i].real]_vars

\* scan_bus has reconnected the slave that fell back to a simulation link at
\* construction, next to a slave on a real port: the new link is a MockSerial
C28_Witness ==
    \E t \in Threads, i \in Slaves, j \in Slaves :
        /\ pc[t] = "s_exit"
        /\ res[t][i] = "reopened"
        /\ down[i] = Down("boot", 0)
        /\ serial_connections[i] = MockSerial(1)
        /\ serial_connections[j].real
        /\ mock_mode

\* C29: when scan_bus returns, a slave that was online when it was called is
\* online iff its transport reports open, is in the returned list iff it is
\* online, and no reconnection was attempted for it.
C29_ScanReverifies ==
    \A t \in Threads :
        pc[t] = "s_exit" =>
            \A i \in Slaves :
                online0[t][i] =>
                    /\ slave_online[i] <=> serial_connections[i].open
                    /\ (i \in found[t]) <=> slave_online[i]
                    /\ res[t][i] \notin {"reopened", "reopen_failed"}

\* C27: when __init__ is over, the link list and the liveness vector have one
\* entry per configured port, in the order of the ports; a port whose
\* serial.Serial failed to open has a simulation link and is the only kind of
\* slave marked offline; a port that opened has its real link and is online,
\* and so is every slave simulated on request or by auto-detection. While the
\* lists are built they have equal lengths.
C27_Construction ==
    /\ Len(ctor_connections) = Len(ctor_online)
    /\ ctor_pc = "done" =>
        /\ Len(ctor_connections) = ctor_ports
        /\ \A p \in 1..ctor_ports :
            LET attempted == ~Simulated(ctor_mock, SERIAL_AVAILABLE)
                failed == attempted /\ ~ctor_opens[p]
            IN  /\ failed => ~ctor_connections[p].real /\ ~ctor_online[p]
                /\ ~failed => ctor_online[p]
                /\ (attempted /\ ctor_opens[p]) => ctor_connections[p] = RealSerial(0)
                /\ ~attempted => ctor_connections[p] = MockSerial(0)
        /\ (SERIAL_AVAILABLE /\ ctor_ports = NumSlaves) =>
            /\ ctor_connections = InitConnections(ctor_mock, ctor_opens)
            /\ ctor_online = InitOnline(ctor_mock, ctor_opens)
            /\ ctor_self_mock = InitMockMode(ctor_mock, ctor_opens)

\* a constructed controller in hardware mode whose first port opened and
\* whose second port failed
C27_Witness ==
    /\ ctor_pc = "done"
    /\ ctor_ports >= 2
    /\ ctor_connections[1].real /\ ctor_online[1]
    /\ ~ctor_connections[2].real /\ ~ctor_online[2]
    /\ ctor_self_mock /\ ~ctor_mock

\* C23: whatever set_led, clear and fill calls were made, the buffer has
\* total_leds elements, each 0 or 1; a set_led with an index outside
\* [0, total_leds) has left the buffer as it was, one with an index inside has
\* changed that element only, and none raises; after clear every element is 0.
C23_BufferInvariant ==
    /\ Len(dm_buffer) = total_leds
    /\ \A k \in 1..Len(dm_buffer) : dm_buffer[k] \in {0, 1}
    /\ dm_call.op = "set_led" =>
        /\ ~dm_call.raised
        /\ IF 0 <= dm_call.index /\ dm_call.index < total_leds
             THEN dm_buffer = [dm_call.before EXCEPT
                                 ![dm_call.index + 1] = IF dm_call.state # 0 THEN 1 ELSE 0]
             ELSE dm_buffer = dm_call.before
    /\ dm_call.op = "clear" => \A k \in 1..total_leds : dm_buffer[k] = 0

\* set_led(-1, 0) on a buffer whose last channel is on: a Python list would
\* take the index, the range test does not
C23_Witness ==
    /\ dm_call.op = "set_led"
    /\ dm_call.index = -1
    /\ dm_call.state = 0
    /\ dm_buffer[total_leds] = 1

\* C24: when close() of the display has returned, it has cleared the buffer,
\* dispatched the all-off frame and released the transport, in that order,
\* and the buffer is all zeros.
C24_GracefulShutdown ==
    dm_pc = "closed" =>
        /\ dm_trace = <<"clear", "show", "release">>
        /\ dm_buffer = Zeros(total_leds)
        /\ dm_shown = Zeros(total_leds)

\* C21: a ScanningChase or CircleAnimation on T channels has position
\* k mod T after k steps, always within [0, T); every index a step passes to
\* set_led is within [0, T), and the window of a step is the width channels
\* from the position the step began at, continuing at channel 0 past the last.
C21_WrapAround ==
    kind \in {"ScanningChase", "CircleAnimation"} =>
        /\ inst.position \in 0..(total_leds - 1)
        /\ inst.position = (steps + (IF phase = "wait" THEN 1 ELSE 0)) % total_leds
        /\ pat_lit \subseteq 0..(total_leds - 1)
        /\ phase \in {"show", "advance", "wait"} =>
             pat_lit = {(inst0.position + i) % total_leds : i \in 0..(pat_width - 1)}

\* the fifth step of a chase of width 2 on 5 channels: the window is
\* channels 4 and 0 and the position has wrapped to 0
C21_Witness ==
    /\ kind = "ScanningChase"
    /\ total_leds = 5
    /\ pat_width = 2
    /\ steps = 4
    /\ phase = "wait"
    /\ pat_lit = {4, 0}
    /\ inst.position = 0

ShowDoneInStep == \E e \in 1..Len(events) : events[e] = "show"
StepIndex == IF phase = "clear" THEN steps - 1 ELSE steps
HalfFrame(k, total) ==
    [j \in 1..total |->
        IF k % 3 = 1 /\ j - 1 < total \div 2 THEN 1
        ELSE IF k % 3 = 2 /\ j - 1 >= total \div 2 THEN 1
        ELSE 0]

\* C22: the frame the k-th step of RelayTest hands to show (k from 0) is all
\* off when k mod 3 = 0, exactly the channels [0, T//2) when k mod 3 = 1 and
\* exactly the channels [T//2, T) when k mod 3 = 2.
C22_DiagnosticCycle ==
    (kind = "RelayTest" /\ ShowDoneInStep) =>
        pat_shown.frame = HalfFrame(StepIndex, total_leds)

\* step 5 of a RelayTest on 5 channels shows the second half, channels 2..4
C22_Witness ==
    /\ kind = "RelayTest"
    /\ total_leds = 5
    /\ steps = 5
    /\ phase = "advance"
    /\ pat_shown.frame = <<0, 0, 1, 1, 1>>

StepOrder(k) ==
    IF k = "RandomTwinkle" THEN <<"clear", "set", "show", "wait">>
    ELSE <<"clear", "set", "show", "advance", "wait">>

\* C30: what a step of any animation class has done so far is a prefix of
\* clear, set, show, advance, wait (RandomTwinkle has no state to advance), so
\* show is called once and the wait comes last; the frame handed to show is
\* the cleared buffer with the step's pattern written, and the instance's
\* fields at the call are those the step began with.
C30_StepOrdering ==
    /\ Len(events) <= Len(StepOrder(kind))
    /\ events = SubSeq(StepOrder(kind), 1, Len(events))
    /\ ShowDoneInStep =>
        /\ pat_shown.inst = inst0
        /\ pat_shown.frame =
             [j \in 1..total_leds |-> IF (j - 1) \in pat_lit THEN 1 ELSE 0]
        /\ kind # "RandomTwinkle" =>
             pat_lit = SetIndices(kind, inst0, pat_width, total_leds)

\* a completed LarsonScanner step that reversed the direction after its show
C30_Witness ==
    /\ kind = "LarsonScanner"
    /\ events = <<"clear", "set", "show", "advance", "wait">>
    /\ pat_shown.inst.direction = 1
    /\ inst.direction = -1
    /\ pat_shown.frame # Zeros(total_leds)

\* C39: when dispatch_frame has returned, the list its caller passed has the
\* length and the contents it had before the call.
C39_CallerFrameKept ==
    fpc = "done" => frame_data = frame_arg

\* C32: with scan_bus running concurrently, every try block of dispatch_frame
\* works on the link that is registered for its slave at that moment, so a
\* slave is set offline by dispatch_frame only for a failure on its
\* registered link.
C32_WritesRegisteredLink ==
    [][\A t \in Threads :
         (pc[t] = "d_io" /\ pc'[t] # "d_io") =>
             conn[t] = serial_connections[idx[t]]]_vars

PatternFrame(lit, total) == [j \in 1..total |-> IF (j - 1) \in lit THEN 1 ELSE 0]

\* C33: the frame a step hands to show is decided by the instance's fields at
\* the start of the step (for RandomTwinkle, by the draws of the step), with
\* every channel outside the pattern off, whatever the buffer held before.
C33_FrameFromOwnState ==
    ShowDoneInStep =>
        \E lit \in (IF kind = "RandomTwinkle" THEN {pat_lit}
                    ELSE {SetIndices(kind, inst0, pat_width, total_leds)}) :
            pat_shown.frame = PatternFrame(lit, total_leds)

\* a CircleAnimation step that began on a buffer with every channel on and
\* showed channel 0 alone
C33_Witness ==
    /\ kind = "CircleAnimation"
    /\ total_leds = 5
    /\ pat_prior = Ones(5)
    /\ ShowDoneInStep
    /\ pat_shown.frame = <<1, 0, 0, 0, 0>>

\* C34: a CircleAnimation and a ScanningChase of width 1, constructed on
\* displays with the same channel count, show the same frame at every step,
\* and after the same number of steps their positions are equal.
C34_CircleIsChaseOfWidthOne ==
    /\ \A n \in 1..Min(Len(tw_cframes), Len(tw_kframes)) : tw_cframes[n] = tw_kframes[n]
    /\ Len(tw_cframes) = Len(tw_kframes) => tw_circle.position = tw_chase.position

\* both have stepped past the wrap from the last channel to the first one
C34_Witness ==
    /\ tw_total = 3
    /\ Len(tw_cframes) = 5
    /\ Len(tw_kframes) = 5
    /\ tw_cframes[4] = <<1, 0, 0>>
    /\ tw_kframes[5] = <<0, 1, 0>>
    /\ tw_circle.position = 2

\* C35: a show call with a bus addresses the slaves base_address + 0 ..
\* base_address + num_slaves - 1 once each in ascending order, every write
\* carrying the bytes _pack_bits gives for that slave's slice of the buffer; an
\* OSError from one write is not raised to the caller and the later slaves
\* are still written; without a bus show writes nothing.
C35_OneWritePerSlave ==
    /\ sh_pc # "raised"
    /\ \A k \in 1..Len(sh_writes) :
         /\ sh_writes[k].address = base_address + (k - 1)
         /\ sh_writes[k].data = _pack_bits(slave_chunk(sh_buffer, k - 1))
    /\ sh_pc = "done" =>
         Len(sh_writes) = (IF sh_bus = "open" THEN num_slaves ELSE 0)

\* the write to the first slave failed, the second slave was still written,
\* with channels 0 and 2 of its range on
C35_Witness ==
    /\ sh_pc = "done"
    /\ sh_bus = "open"
    /\ sh_writes[1].outcome = "OSError"
    /\ sh_writes[2] = [address |-> 9, cmd |-> 0, data |-> <<5>>, outcome |-> "ok"]

\* a step that answers a request
Answered == rq_count' # rq_count

\* C36: a start_animation request answered with an error (no name, or a name
\* that is not an animation) leaves animation_running, current_animation,
\* manual_mode, led_states and the running animation thread as they were.
C36_RejectedStartChangesNothing ==
    [][(Answered /\ rq_last'.op = "start" /\ rq_last'.status = 400) =>
          UNCHANGED <<animation_running, current_animation, manual_mode, led_states,
                      animation_thread, th_running>>]_vars

\* C37: a toggle_led request whose index lies outside [0, total_leds) is
\* answered with an error and leaves led_states, the frame buffer,
\* manual_mode and the animation as they were, and dispatches no frame.
C37_RejectedToggleChangesNothing ==
    [][(Answered /\ rq_last'.op = "toggle"
          /\ (rq_last'.index < 0 \/ rq_last'.index >= rq_total)) =>
            /\ rq_last'.status = 400
            /\ UNCHANGED <<led_states, rq_buffer, manual_mode, rq_frames, animation_running,
                           current_animation, animation_thread, th_running, th_pc>>]_vars

\* a toggle request for the index total_leds was refused while an animation
\* was running
C37_Witness ==
    /\ rq_last = [op |-> "toggle", name |-> "", index |-> rq_total, status |-> 400]
    /\ animation_running
    /\ \E a \in AnimThreads : Alive(a) /\ th_running[a]
    /\ rq_count = 2

\* C38: animation_running is true exactly when some animation thread has been
\* started and has neither ended nor been told to stop; once every loop has
\* ended, animation_running is false and current_animation is None.
C38_RunningFlagTracksThread ==
    /\ animation_running = (\E a \in AnimThreads : Alive(a) /\ th_running[a])
    /\ (\A a \in AnimThreads : ~Alive(a)) =>
           (~animation_running /\ current_animation = "None")

====
